---- MODULE Spec2Model ----
(***************************************************************************)
(* bevy_cosmic_edit: the text clamp (_trim_text, src/src/lib.rs), the      *)
(* layout passes that maintain the horizontal viewport window, the buffer  *)
(* size and the automatic height, and the rasterizer (render_texture and   *)
(* draw_pixel), all of src/src/render.rs; the edit history, the            *)
(* placeholder, the links from layout nodes to widgets, the cursor         *)
(* position and the schedule of a frame (src/src/lib.rs).                  *)
(*                                                                         *)
(* A Rust String is a sequence of characters; each character has a UTF-8   *)
(* width in bytes.  String::len and String::truncate work in bytes, and    *)
(* String::chars in characters, as in the standard library.                *)
(***************************************************************************)
EXTENDS Integers, Sequences, FiniteSets, TLC

VARIABLES
    text,        \* the CosmicText handed to _trim_text
    max_chars,   \* CosmicMaxChars.0
    max_lines,   \* CosmicMaxLines.0
    pc,          \* which operation produced `result`
    result,      \* the value the operation returned (or the panic)
    alt,         \* the value of the operation applied in the other order
    scale,          \* Window::scale_factor of the primary window
    scale_events,   \* WindowScaleFactorChanged events not yet read
    mode,           \* CosmicMode of each widget
    position,       \* CosmicTextPosition of each widget
    has_editor,     \* whether the widget carries a CosmicEditor
    sprite_x,       \* Sprite::custom_size.x of each widget
    sprite_changed, \* Changed<Sprite> as cosmic_widget_size will see it
    size_x,         \* CosmicWidgetSize.0.x
    padding_x,      \* CosmicPadding.0.x
    padding_y,      \* CosmicPadding.0.y
    x_offset,       \* XOffset.0: None or (min, max)
    metrics_scale,  \* the scale of the Metrics the buffer was last given
    redraw,         \* Buffer::redraw()
    glyphs,         \* advances of the first line's glyphs at scale 1
    cursor,         \* Editor::cursor(): index and affinity
    sprite_y,       \* Sprite::custom_size.y of each widget
    size_y,         \* CosmicWidgetSize.0.y
    layout_runs,    \* Buffer::layout_runs(): the lines after wrapping
    buffer_size,    \* the (width, height) last given to Buffer::set_size
    style_height,   \* Style::height of each layout node: "Auto" or Val::Px
    node_source,    \* CosmicSource.0 of each layout node
    editor_redraw,  \* Editor::redraw() of the widget's editor
    fill_color,     \* FillColor as four bytes
    background,     \* CosmicBackground.0: whether a handle is bound
    bg_image,       \* what Assets<Image> holds for the background handle
    surface,        \* what Assets<Image> holds for the widget's canvas handle
    px,             \* the arguments of one draw_pixel call
    px_out,         \* the buffer after that call (or the panic)
    edits,          \* CosmicEditHistory::edits
    current_edit,   \* CosmicEditHistory::current_edit
    buffer_text,    \* CosmicBuffer::get_text() of each widget
    user_text,      \* the text the user has entered: the logical text
    placeholder,    \* whether the widget carries the Placeholder marker
    commands,       \* Commands queued and not yet applied
    alive,          \* whether the widget entity exists
    canvas,         \* Handle<Image> of each widget
    canvas_changed, \* Changed<Handle<Image>> as swap_target_handle will see it
    dest_handle,    \* Handle<Image> of each linking entity, if it has one
    dest_texture,   \* UiImage::texture of each linking entity, if it has one
    node_size,      \* Node::size() of each linking entity
    ran,            \* the systems that have run in the current frame
    scale_factor,   \* CosmicMetrics::scale_factor of each widget
    metrics_added,  \* Added<CosmicMetrics> as set_initial_scale will see it
    layout,         \* Buffer::layout_runs(): the glyphs of every run
    cursor_px       \* the cursor_x that set_cursor computed

trimVars == <<text, max_chars, max_lines, result, alt>>

widgetVars == <<scale, scale_events, mode, position, has_editor, sprite_x,
                sprite_changed, size_x, padding_x, x_offset, metrics_scale,
                redraw, glyphs, cursor, padding_y, sprite_y, size_y, layout_runs,
                buffer_size,
                style_height, node_source, editor_redraw, fill_color,
                background, bg_image, surface>>

heightVars == <<padding_y, sprite_y, size_y, layout_runs, buffer_size, style_height, node_source>>

renderVars == <<editor_redraw, fill_color, background, bg_image, surface>>

pixelVars == <<px, px_out>>

historyVars == <<edits, current_edit>>

placeholderVars == <<buffer_text, user_text, placeholder, commands>>

linkVars == <<alive, canvas, canvas_changed, dest_handle, dest_texture, node_size>>

scheduleVars == <<ran, scale_factor, metrics_added>>

shapeVars == <<layout, cursor_px>>

featureVars == <<historyVars, placeholderVars, linkVars, scheduleVars, shapeVars>>

vars == <<text, max_chars, max_lines, pc, result, alt, scale, scale_events,
          mode, position, has_editor, sprite_x, sprite_changed, size_x,
          padding_x, x_offset, metrics_scale, redraw, glyphs, cursor, padding_y,
          sprite_y, size_y, layout_runs, buffer_size, style_height, node_source,
          editor_redraw, fill_color, background, bg_image, surface, px, px_out,
          edits, current_edit, buffer_text, user_text, placeholder, commands,
          alive, canvas, canvas_changed, dest_handle, dest_texture, node_size,
          ran, scale_factor, metrics_added, layout, cursor_px>>

----------------------------------------------------------------------------
(* Bounds of the model. *)

MaxStrLen == 4      \* OneStyle inputs: at most this many characters
MaxWeight == 6      \* MultiStyle inputs: lines + runs + characters
MaxLimit == 4       \* max_chars and max_lines range over 0..MaxLimit
MaxScale == 2       \* scale factors 1..MaxScale
MaxSprite == 2      \* sprite widths 1..MaxSprite
MaxPadding == 2     \* configured paddings 0..MaxPadding
MaxGlyphs == 2      \* glyphs on the first line
MaxEvents == 2      \* scale changes between two frames
MaxLines == 2       \* layout runs of a buffer
LineHeight == 25    \* CosmicMetrics::line_height the host configures
MaxSide == 2        \* widths and heights of the surfaces that are rasterized

----------------------------------------------------------------------------
(* Characters and strings. *)

NL == "\n"          \* 0xA as char

\* "e_acute" is the character U+00E9.
Chars == {"a", NL, "e_acute"}

AttrsSet == {"attrsA", "attrsB"}

\* char::len_utf8: U+00E9 takes two bytes, the others one.
Utf8Len(c) == IF c = "e_acute" THEN 2 ELSE 1

RECURSIVE ByteLen(_)
\* String::len: the length in bytes.
ByteLen(s) == IF s = <<>> THEN 0 ELSE Utf8Len(Head(s)) + ByteLen(Tail(s))

Prefix(s, k) == SubSeq(s, 1, k)

\* str::is_char_boundary(n) for n <= len.
IsCharBoundary(s, n) == \E k \in 0..Len(s) : ByteLen(Prefix(s, k)) = n

\* String::truncate(new_len): no effect when new_len > len; panics when
\* new_len is not on a character boundary; else keeps the first new_len bytes.
Truncate_OffByOne(s, new_len) ==
    IF new_len > ByteLen(s) THEN [ok |-> TRUE, s |-> s]
    ELSE IF ~IsCharBoundary(s, new_len) THEN [ok |-> FALSE, s |-> s]
    ELSE LET k == CHOOSE k \in 0..Len(s) : ByteLen(Prefix(s, k)) = new_len
         IN  [ok |-> TRUE, s |-> Prefix(s, IF k > 0 THEN k - 1 ELSE 0)]

\* A truncate that drops the last character also when new_len is beyond the
\* end of the string.
Truncate_AlwaysCuts(s, new_len) ==
    IF ~IsCharBoundary(s, new_len) /\ new_len <= ByteLen(s)
    THEN [ok |-> FALSE, s |-> s]
    ELSE LET k == IF new_len > ByteLen(s) THEN Len(s)
                  ELSE CHOOSE k \in 0..Len(s) : ByteLen(Prefix(s, k)) = new_len
         IN  [ok |-> TRUE, s |-> Prefix(s, IF k = Len(s) /\ k > 0 THEN k - 1 ELSE k)]

Truncate(s, new_len) ==
    IF new_len > ByteLen(s) THEN [ok |-> TRUE, s |-> s]
    ELSE IF ~IsCharBoundary(s, new_len) THEN [ok |-> FALSE, s |-> s]
    ELSE LET k == CHOOSE k \in 0..Len(s) : ByteLen(Prefix(s, k)) = new_len
         IN  [ok |-> TRUE, s |-> Prefix(s, k)]

----------------------------------------------------------------------------
(* CosmicText and the outcome of _trim_text. *)

OneStyle(s) == [kind |-> "OneStyle", string |-> s]

MultiStyle(ls) == [kind |-> "MultiStyle", lines |-> ls]

\* The call did not return: the thread panicked.
Panic(why) == [kind |-> "Panic", why |-> why]

\* usize subtraction a - b: a panic with overflow checks on (debug builds),
\* wrap-around modulo 2^64 with them off (release builds).  The wrapped value
\* exceeds the length of every string; 2^30 stands for 2^64 here.
UsizeSub(a, b, overflow_checks) ==
    IF a >= b THEN [ok |-> TRUE, v |-> a - b]
    ELSE IF overflow_checks THEN [ok |-> FALSE, v |-> 0]
    ELSE [ok |-> TRUE, v |-> a - b + 2^30]

----------------------------------------------------------------------------
(* _trim_text, OneStyle arm (lib.rs 351-375). *)

RECURSIVE ScanNewlines(_, _, _, _)
\* The loop of lines 360-372 from character char_pos + 1 on: the character
\* position at which the string is cut (the max_lines-th newline), 0 if the
\* loop ends without a cut.
ScanNewlines(string, char_pos, line_acc, maxl) ==
    IF char_pos >= Len(string) THEN 0
    ELSE IF string[char_pos + 1] = NL
         THEN IF line_acc + 1 >= maxl THEN char_pos + 1
              ELSE ScanNewlines(string, char_pos + 1, line_acc + 1, maxl)
         ELSE ScanNewlines(string, char_pos + 1, line_acc, maxl)

TrimOneStyle_NoZeroGuard(string, maxc, maxl) ==
    LET t1 == Truncate(string, maxc)
    IN  IF ~t1.ok THEN Panic("char boundary")
        ELSE IF maxl = 0 THEN OneStyle(t1.s)
        ELSE LET cut == ScanNewlines(t1.s, 0, 0, maxl)
                 t2 == IF cut = 0 THEN t1 ELSE Truncate(t1.s, cut)
             IN  IF t2.ok THEN OneStyle(t2.s) ELSE Panic("char boundary")

TrimOneStyle(string, maxc, maxl) ==
    LET t1 == IF maxc # 0 THEN Truncate(string, maxc)
              ELSE [ok |-> TRUE, s |-> string]
    IN  IF ~t1.ok THEN Panic("char boundary")
        ELSE IF maxl = 0 THEN OneStyle(t1.s)
        ELSE LET cut == ScanNewlines(t1.s, 0, 0, maxl)
                 t2 == IF cut = 0 THEN t1 ELSE Truncate(t1.s, cut)
             IN  IF t2.ok THEN OneStyle(t2.s) ELSE Panic("char boundary")

----------------------------------------------------------------------------
(* _trim_text, MultiStyle arm (lib.rs 376-423). *)

RECURSIVE ScanRun(_, _, _, _, _)
\* The loop of lines 407-415 over the characters of a kept run, from
\* character i on: the counters after it.
ScanRun(string, i, line_acc, char_acc, maxl) ==
    IF i > Len(string) THEN [line_acc |-> line_acc, char_acc |-> char_acc]
    ELSE IF string[i] = NL
         THEN IF line_acc + 1 >= maxl
              THEN [line_acc |-> line_acc + 1, char_acc |-> char_acc + 1]
              ELSE ScanRun(string, i + 1, line_acc + 1, char_acc + 1, maxl)
         ELSE ScanRun(string, i + 1, line_acc, char_acc, maxl)

RECURSIVE TrimRuns(_, _, _, _, _, _)
\* The loop of lines 394-419 over the runs of a line, from run j on.
\* st: char_acc, line_acc, strs (the runs kept so far), panic.
TrimRuns(line, j, st, maxc, maxl, overflow_checks) ==
    IF j > Len(line) \/ st.panic # "none" THEN st
    ELSE IF st.char_acc >= maxc /\ maxc > 0 THEN st
    ELSE
      LET run == line[j]
          budget == UsizeSub(maxc, st.char_acc, overflow_checks)
          t == IF maxc > 0 /\ budget.ok THEN Truncate(run.string, budget.v)
               ELSE [ok |-> TRUE, s |-> run.string]
          acc1 == IF maxc > 0 THEN st.char_acc + ByteLen(t.s) ELSE st.char_acc
          scan == IF maxl > 0 THEN ScanRun(t.s, 1, st.line_acc, acc1, maxl)
                  ELSE [line_acc |-> st.line_acc, char_acc |-> acc1]
      IN  IF maxc > 0 /\ ~budget.ok
            THEN [st EXCEPT !.panic = "subtract with overflow"]
          ELSE IF ~t.ok
            THEN [st EXCEPT !.panic = "char boundary"]
          ELSE TrimRuns(line, j + 1,
                        [char_acc |-> scan.char_acc,
                         line_acc |-> scan.line_acc,
                         strs |-> Append(st.strs,
                                         [string |-> t.s, attrs |-> run.attrs]),
                         panic |-> "none"],
                        maxc, maxl, overflow_checks)

RECURSIVE TrimLines(_, _, _, _, _, _)
\* The loop of lines 382-421 over the lines, from line i on.
\* st: char_acc, line_acc, trimmed_styles, panic.
TrimLines(lines, i, st, maxc, maxl, overflow_checks) ==
    IF i > Len(lines) \/ st.panic # "none" THEN st
    ELSE
      LET line_acc == st.line_acc + 1
          char_acc == st.char_acc + 1
      IN  IF (line_acc >= maxl /\ maxl > 0) \/ (char_acc >= maxc /\ maxc > 0)
          THEN st
          ELSE LET r == TrimRuns(lines[i], 1,
                                 [char_acc |-> char_acc, line_acc |-> line_acc,
                                  strs |-> <<>>, panic |-> "none"],
                                 maxc, maxl, overflow_checks)
               IN  TrimLines(lines, i + 1,
                             [char_acc |-> r.char_acc,
                              line_acc |-> r.line_acc,
                              trimmed_styles |-> Append(st.trimmed_styles, r.strs),
                              panic |-> r.panic],
                             maxc, maxl, overflow_checks)

TrimMultiStyle(lines, maxc, maxl, overflow_checks) ==
    LET r == TrimLines(lines, 1,
                       [char_acc |-> 0, line_acc |-> 0,
                        trimmed_styles |-> <<>>, panic |-> "none"],
                       maxc, maxl, overflow_checks)
    IN  IF r.panic # "none" THEN Panic(r.panic)
        ELSE MultiStyle(r.trimmed_styles)

\* fn _trim_text(text, max_chars, max_lines) -> CosmicText
_trim_text(t, maxc, maxl, overflow_checks) ==
    IF maxc = 0 /\ maxl = 0 THEN t
    ELSE IF t.kind = "OneStyle" THEN TrimOneStyle(t.string, maxc, maxl)
    ELSE TrimMultiStyle(t.lines, maxc, maxl, overflow_checks)

----------------------------------------------------------------------------
(* The inputs of the clamp. *)

\* Strings of at most n characters.
StringsUpTo(n) == UNION {[1..k -> Chars] : k \in 0..n}

\* (String, AttrsOwned) runs whose string has at most n characters.
RunsUpTo(n) == [string : StringsUpTo(n), attrs : AttrsSet]

RECURSIVE LinesUpTo(_)
\* Lines (Vec<(String, AttrsOwned)>) with runs + characters <= n.
LinesUpTo(n) ==
    IF n <= 0 THEN {<<>>}
    ELSE {<<>>} \cup
         UNION {{<<r>> \o l : l \in LinesUpTo(n - 1 - Len(r.string))} :
                r \in RunsUpTo(n - 1)}

RECURSIVE LineWeight(_)
LineWeight(line) ==
    IF line = <<>> THEN 0
    ELSE 1 + Len(Head(line).string) + LineWeight(Tail(line))

RECURSIVE TextsUpTo(_)
\* Vec<Vec<(String, AttrsOwned)>> with lines + runs + characters <= n.
TextsUpTo(n) ==
    IF n <= 0 THEN {<<>>}
    ELSE {<<>>} \cup
         UNION {{<<l>> \o t : t \in TextsUpTo(n - 1 - LineWeight(l))} :
                l \in LinesUpTo(n - 1)}

CosmicTexts ==
    {OneStyle(s) : s \in StringsUpTo(MaxStrLen)} \cup
    {MultiStyle(ls) : ls \in TextsUpTo(MaxWeight)}

NoResult == [kind |-> "None"]

\* Editor::insert_string("z") with the cursor at the end of a OneStyle text.
InsertZ(t) ==
    IF t.kind = "OneStyle" THEN OneStyle(Append(t.string, "z")) ELSE t

----------------------------------------------------------------------------
(* The widgets. *)

Widgets == {"w1"}

\* XOffset(None); XOffset(Some((min, max))) is the pair <<min, max>>.
NoneOffset == <<>>

\* No widget is spawned.
NoWidgets ==
    /\ scale = 1
    /\ scale_events = <<>>
    /\ mode = <<>>
    /\ position = <<>>
    /\ has_editor = <<>>
    /\ sprite_x = <<>>
    /\ sprite_changed = <<>>
    /\ size_x = <<>>
    /\ padding_x = <<>>
    /\ x_offset = <<>>
    /\ metrics_scale = <<>>
    /\ redraw = <<>>
    /\ glyphs = <<>>
    /\ cursor = <<>>
    /\ padding_y = <<>>
    /\ sprite_y = <<>>
    /\ size_y = <<>>
    /\ layout_runs = <<>>
    /\ buffer_size = <<>>
    /\ style_height = <<>>
    /\ node_source = <<>>
    /\ editor_redraw = <<>>
    /\ fill_color = <<>>
    /\ background = <<>>
    /\ bg_image = <<>>
    /\ surface = <<>>

\* No draw_pixel call is under study.
NoPixel ==
    /\ px = <<>>
    /\ px_out = <<>>

NoHistory ==
    /\ edits = <<>>
    /\ current_edit = 0

NoPlaceholders ==
    /\ buffer_text = <<>>
    /\ user_text = <<>>
    /\ placeholder = <<>>
    /\ commands = <<>>

NoLinks ==
    /\ alive = <<>>
    /\ canvas = <<>>
    /\ canvas_changed = <<>>
    /\ dest_handle = <<>>
    /\ dest_texture = <<>>
    /\ node_size = <<>>

NoSchedule ==
    /\ ran = {}
    /\ scale_factor = <<>>
    /\ metrics_added = <<>>

NoShape ==
    /\ layout = <<>>
    /\ cursor_px = <<>>

\* The history, the placeholders, the links, the schedule and the shaped
\* runs are not under study.
NoFeatures ==
    /\ NoHistory
    /\ NoPlaceholders
    /\ NoLinks
    /\ NoSchedule
    /\ NoShape

----------------------------------------------------------------------------
(* The clamp as a state machine: an input is drawn, then one of the         *)
(* operations is applied to it.                                            *)

InitTrim ==
    /\ NoWidgets
    /\ NoPixel
    /\ NoFeatures
    /\ text \in CosmicTexts
    /\ max_chars \in 0..MaxLimit
    /\ max_lines \in 0..MaxLimit
    /\ pc = "input"
    /\ result = NoResult
    /\ alt = NoResult

\* _trim_text(text, max_chars, max_lines); the build decides the overflow checks.
Trim ==
    /\ pc = "input"
    /\ \E overflow_checks \in BOOLEAN :
          result' = _trim_text(text, max_chars, max_lines, overflow_checks)
    /\ pc' = "trimmed"
    /\ UNCHANGED <<text, max_chars, max_lines, alt>>
    /\ UNCHANGED <<widgetVars, pixelVars, featureVars>>

\* The edit "z" at the end followed by the clamp to max_chars (result), and the
\* clamp to max_chars - 1 followed by the edit (alt).
InsertThenTrim ==
    /\ pc = "input"
    /\ text.kind = "OneStyle"
    /\ max_chars >= 1
    /\ max_lines = 0
    /\ \E overflow_checks \in BOOLEAN :
          /\ result' = _trim_text(InsertZ(text), max_chars, 0, overflow_checks)
          /\ alt' = LET r == _trim_text(text, max_chars - 1, 0, overflow_checks)
                    IN  IF r.kind = "Panic" THEN r ELSE InsertZ(r)
    /\ pc' = "inserted"
    /\ UNCHANGED <<text, max_chars, max_lines>>
    /\ UNCHANGED <<widgetVars, pixelVars, featureVars>>

\* _trim_text with the same limits on the text that _trim_text returned:
\* result is the second text and alt the first.
TrimAgain ==
    /\ pc = "trimmed"
    /\ result.kind # "Panic"
    /\ \E overflow_checks \in BOOLEAN :
          result' = _trim_text(result, max_chars, max_lines, overflow_checks)
    /\ alt' = result
    /\ pc' = "trimmed_again"
    /\ UNCHANGED <<text, max_chars, max_lines>>
    /\ UNCHANGED <<widgetVars, pixelVars, featureVars>>

NextTrim == Trim \/ InsertThenTrim \/ TrimAgain

SpecTrim == InitTrim /\ [][NextTrim]_vars

----------------------------------------------------------------------------
(* Properties of the clamp. *)

Min(a, b) == IF a < b THEN a ELSE b

\* Number of lines of a string: an empty segment after a final newline counts.
LineCount(s) == 1 + Cardinality({i \in 1..Len(s) : s[i] = NL})

IsPrefix(p, s) == Len(p) <= Len(s) /\ p = Prefix(s, Len(p))

\* C1: _trim_text on OneStyle(s) with max_chars = N > 0 and max_lines = 0
\* returns OneStyle of the first min(N, number of characters of s) characters
\* of s, counted in characters, for every s.
C1_OneStyleKeepsFirstNChars ==
    (pc = "trimmed" /\ text.kind = "OneStyle" /\ max_chars > 0 /\ max_lines = 0)
        => result = OneStyle(Prefix(text.string, Min(max_chars, Len(text.string))))

\* C2: _trim_text on OneStyle(s) with max_lines = N > 0 returns a prefix of s
\* with at most N lines, and s itself (up to the character limit) when s has
\* at most N lines.
C2_OneStyleAtMostNLines ==
    (pc = "trimmed" /\ text.kind = "OneStyle" /\ max_lines > 0 /\ max_chars = 0)
        => /\ result.kind = "OneStyle"
           /\ IsPrefix(result.string, text.string)
           /\ LineCount(result.string) <= max_lines
           /\ LineCount(text.string) <= max_lines => result.string = text.string

\* C3: _trim_text never fails: for every text and every pair of limits it
\* returns a text (no cut off a character boundary, no subtraction below zero).
C3_TrimNeverPanics ==
    pc = "trimmed" => result.kind # "Panic"

RECURSIVE SumBytes(_)
\* Total String::len of the runs of a line.
SumBytes(line) ==
    IF line = <<>> THEN 0 ELSE ByteLen(Head(line).string) + SumBytes(Tail(line))

RECURSIVE CountedSize(_)
\* Sum over the lines of (1 + total length of the runs).
CountedSize(lines) ==
    IF lines = <<>> THEN 0 ELSE 1 + SumBytes(Head(lines)) + CountedSize(Tail(lines))

Newlines(s) == Cardinality({i \in 1..Len(s) : s[i] = NL})

RECURSIVE NewlinesInLine(_)
NewlinesInLine(line) ==
    IF line = <<>> THEN 0
    ELSE Newlines(Head(line).string) + NewlinesInLine(Tail(line))

RECURSIVE CountedLines(_)
\* Lines of a MultiStyle text: one per line plus one per newline inside a run.
CountedLines(lines) ==
    IF lines = <<>> THEN 0
    ELSE 1 + NewlinesInLine(Head(lines)) + CountedLines(Tail(lines))

\* The text is below the character limit maxc.
UnderCharLimit(t, maxc) ==
    IF t.kind = "OneStyle" THEN ByteLen(t.string) <= maxc
    ELSE CountedSize(t.lines) < maxc

\* The text is below the line limit maxl.
UnderLineLimit(t, maxl) ==
    IF t.kind = "OneStyle" THEN LineCount(t.string) <= maxl
    ELSE CountedLines(t.lines) < maxl

\* C4: a limit of 0 means unlimited: with both limits 0 the text is returned
\* unchanged; with max_chars = 0 a text under the line limit is returned
\* unchanged whatever its size in characters, and with max_lines = 0 a text
\* under the character limit is returned unchanged whatever its lines.
C4_ZeroMeansUnlimited ==
    pc = "trimmed" =>
        /\ (max_chars = 0 /\ max_lines = 0) => result = text
        /\ (max_chars = 0 /\ max_lines > 0 /\ UnderLineLimit(text, max_lines))
              => result = text
        /\ (max_lines = 0 /\ max_chars > 0 /\ UnderCharLimit(text, max_chars))
              => result = text

\* C4 witness: no character limit, a text larger than every limit of the model
\* in characters and under the line limit, returned unchanged.
C4_Witness ==
    /\ pc = "trimmed"
    /\ text.kind = "OneStyle"
    /\ max_chars = 0
    /\ max_lines = 1
    /\ ByteLen(text.string) > MaxLimit
    /\ result = text

\* line is lines' run-by-run prefix: the same runs in order with their
\* attributes, the last kept run possibly shortened.
RunsPrefix(kept, line) ==
    /\ Len(kept) <= Len(line)
    /\ \A j \in 1..Len(kept) :
          /\ kept[j].attrs = line[j].attrs
          /\ IF j < Len(kept) THEN kept[j].string = line[j].string
             ELSE IsPrefix(kept[j].string, line[j].string)

\* kept is a prefix of lines: the same lines in order, the last kept line
\* possibly cut run by run.
LinesPrefix(kept, lines) ==
    /\ Len(kept) <= Len(lines)
    /\ \A i \in 1..Len(kept) :
          IF i < Len(kept) THEN kept[i] = lines[i]
          ELSE RunsPrefix(kept[i], lines[i])

\* C5: _trim_text on MultiStyle with max_chars = N > 0 returns a prefix of the
\* input whose counted size is at most N.
C5_MultiStylePrefixWithinBudget ==
    (pc = "trimmed" /\ text.kind = "MultiStyle" /\ max_chars > 0)
        => /\ result.kind = "MultiStyle"
           /\ LinesPrefix(result.lines, text.lines)
           /\ CountedSize(result.lines) <= max_chars

RECURSIVE JoinLines(_)
\* The lines' single runs joined by newline.
JoinLines(lines) ==
    IF lines = <<>> THEN <<>>
    ELSE IF Len(lines) = 1 THEN Head(lines)[1].string
    ELSE Head(lines)[1].string \o <<NL>> \o JoinLines(Tail(lines))

OneRunPerLine(lines) ==
    \A i \in 1..Len(lines) :
        /\ Len(lines[i]) = 1
        /\ \A k \in 1..Len(lines[i][1].string) : lines[i][1].string[k] # NL

\* C6: for lines of one run each without newline, the plain text of
\* _trim_text(MultiStyle(lines)) equals the text of
\* _trim_text(OneStyle(lines joined by newline)).
C6_MultiStyleAgreesWithOneStyle ==
    (pc = "trimmed" /\ text.kind = "MultiStyle" /\ OneRunPerLine(text.lines))
        => LET one == TrimOneStyle(JoinLines(text.lines), max_chars, max_lines)
           IN  IF max_chars = 0 /\ max_lines = 0
               THEN result = text
               ELSE /\ result.kind = "MultiStyle"
                    /\ one.kind = "OneStyle"
                    /\ OneRunPerLine(result.lines)
                    /\ JoinLines(result.lines) = one.string

C34_TrimIsIdempotent ==
    pc = "trimmed_again" => result = alt

\* C34 witness: a MultiStyle text under both limits that the first call
\* shortened to lines that the second call returned as they were.
C34_Witness ==
    /\ pc = "trimmed_again"
    /\ text.kind = "MultiStyle"
    /\ max_chars > 0
    /\ max_lines > 0
    /\ alt # text
    /\ alt.lines # <<>>
    /\ result = alt

----------------------------------------------------------------------------
(* The rasterizer: draw_pixel (render.rs).  A pixel buffer is a sequence of *)
(* bytes, four per pixel (R, G, B, A), rows first.                         *)

\* The bytes the model draws channel values from.
Bytes == {0, 128, 255}

\* cosmic_text::Color and the pixels of a buffer: <<r, g, b, a>>.
Colors == [1..4 -> Bytes]

\* Glyph colours: opaque, half covered, fully transparent.
ForeColors == {<<0, 0, 0, 255>>, <<255, 0, 128, 128>>, <<128, 255, 0, 0>>,
               <<255, 128, 0, 255>>}

\* Pixels a buffer holds before a glyph is drawn.
BackColors == {<<255, 255, 255, 255>>, <<0, 128, 255, 128>>}

\* The bytes of a row-first sequence of pixels.
Flatten(q) ==
    [i \in 1..(4 * Len(q)) |-> q[((i - 1) \div 4) + 1][((i - 1) % 4) + 1]]

\* The buffers of n pixels.
BuffersOf(n) == {Flatten(q) : q \in [1..n -> BackColors]}

Pixels(data) == [kind |-> "Pixels", data |-> data]

\* The blend with foreground and background taking each other's weight.
BlendChannel_Swapped(fg, a, bg) == (bg * a + fg * (255 - a)) \div 255

\* One colour channel of `premul + bg * (1.0 - fg.a())`, written back as
\* `(out * 255.0) as u8`: fg * a/255 + bg * (1 - a/255), truncated.  The
\* arithmetic is f32; among the bytes of the model its rounding shows in one
\* case, bg = 255 under a = 128, where 255 * (1 - 128/255) falls just below 127.
BlendChannel(fg, a, bg) ==
    LET exact == (fg * a + bg * (255 - a)) \div 255
    IN  IF fg = 0 /\ a = 128 /\ bg = 255 THEN exact - 1 ELSE exact

\* The alpha channel: Color + Color adds the alphas and Color * f32 leaves
\* alpha alone, so out.a = fg.a + bg.a; `as u8` saturates.
BlendAlpha(a, bg_a) == IF a + bg_a > 255 THEN 255 ELSE a + bg_a

\* draw_pixel without its bounds tests.
draw_pixel_Unguarded(buffer, width, height, x, y, color) ==
    LET offset == (y * width + x) * 4
    IN  IF color[4] = 0 THEN Pixels(buffer)
        ELSE IF offset < 0 \/ offset + 4 > Len(buffer)
             THEN Panic("index out of bounds")
             ELSE Pixels([i \in 1..Len(buffer) |->
                     IF i = offset + 1 THEN BlendChannel(color[1], color[4], buffer[i])
                     ELSE IF i = offset + 2 THEN BlendChannel(color[2], color[4], buffer[i])
                     ELSE IF i = offset + 3 THEN BlendChannel(color[3], color[4], buffer[i])
                     ELSE IF i = offset + 4 THEN BlendAlpha(color[4], buffer[i])
                     ELSE buffer[i]])

\* fn draw_pixel(buffer, width, height, x, y, color): the buffer after the
\* call, or the panic of an index past its end.  Indices are 0-based in the
\* code, 1-based here.
draw_pixel(buffer, width, height, x, y, color) ==
    IF color[4] = 0 THEN Pixels(buffer)
    ELSE IF y < 0 \/ y >= height THEN Pixels(buffer)
    ELSE IF x < 0 \/ x >= width THEN Pixels(buffer)
    ELSE LET offset == (y * width + x) * 4
         IN  IF offset + 4 > Len(buffer)
             THEN Panic("index out of bounds")
             ELSE Pixels([i \in 1..Len(buffer) |->
                     IF i = offset + 1 THEN BlendChannel(color[1], color[4], buffer[i])
                     ELSE IF i = offset + 2 THEN BlendChannel(color[2], color[4], buffer[i])
                     ELSE IF i = offset + 3 THEN BlendChannel(color[3], color[4], buffer[i])
                     ELSE IF i = offset + 4 THEN BlendAlpha(color[4], buffer[i])
                     ELSE buffer[i]])

----------------------------------------------------------------------------
(* Layout: widget size, padding and the viewport window (render.rs).       *)
(* Pixels are integers in the model.                                       *)

Modes == {"InfiniteLine", "AutoHeight", "Wrap"}

\* CosmicTextPosition: Center, TopLeft { padding }, Left { padding }.
Positions ==
    {[kind |-> "Center", padding |-> 0]} \cup
    [kind : {"TopLeft", "Left"}, padding : 0..MaxPadding]

GlyphWidths == {1, 2}

Affinities == {"Before", "After"}

RECURSIVE SumSeq(_)
SumSeq(q) == IF q = <<>> THEN 0 ELSE Head(q) + SumSeq(Tail(q))

\* buffer::get_x_offset_center(widget_width, buffer): (widget - content) / 2.
get_x_offset_center(widget_width, text_width) ==
    (widget_width - text_width) \div 2

\* The advances glyph.w of the first layout run: the buffer shapes the line
\* at its Metrics, font size times scale.
LayoutGlyphs(w) == [i \in 1..Len(glyphs[w]) |-> glyphs[w][i] * metrics_scale[w]]

\* buffer::get_y_offset_center(widget_height, buffer): (widget - content) / 2.
get_y_offset_center(widget_height, text_height) ==
    (widget_height - text_height) \div 2

\* buffer::get_text_size(buffer) as <<width, height>>: the first line's
\* advances and the layout runs at the line height of the buffer's Metrics.
get_text_size(w) ==
    <<SumSeq(LayoutGlyphs(w)), layout_runs[w] * LineHeight * metrics_scale[w]>>

\* The margin auto_height adds to the measured text height.
VerticalMargin == 30

\* An f32 extent of n pixels.
Extent(n) == [kind |-> "f32", v |-> n]

\* f32::MAX, the buffer width of InfiniteLine mode: the largest finite f32,
\* beyond the integers of the model.
F32_MAX == [kind |-> "f32::MAX"]

\* (i32::MAX / 2) as f32, the buffer height of AutoHeight mode: 1073741823
\* rounds to 2^30 in f32.
HalfI32Max == 1073741824

\* f32 ceil of the quotient n / d, d > 0.
CeilDiv(n, d) == -((-n) \div d)

\* Layout nodes, and the entities a CosmicSource can name: the widgets and an
\* entity that is no text widget.
Nodes == {"n1", "n2"}

Entities == Widgets \cup {"e0"}

Auto == "Auto"

\* The comparison of line 320 with >= in place of >.
TextIsTaller_OrEqual(w) ==
    /\ mode[w] = "AutoHeight"
    /\ get_text_size(w)[2] + VerticalMargin >= size_y[w]

\* Line 320 of auto_height: text_height > size.0.y / scale, with
\* text_height = (text_size.1 + 30.) / scale; scale > 0 cancels.
TextIsTaller(w) ==
    /\ mode[w] = "AutoHeight"
    /\ get_text_size(w)[2] + VerticalMargin > size_y[w]

\* The new height without the vertical margin of line 319.
GrownHeight_NoMargin(w) == CeilDiv(get_text_size(w)[2], scale)

\* Line 322: text_height.ceil().
GrownHeight(w) == CeilDiv(get_text_size(w)[2] + VerticalMargin, scale)

\* The buffer size without the horizontal padding of lines 98-101.
BufferSizeFor_NoPadding(w) ==
    IF mode[w] = "InfiniteLine" THEN <<F32_MAX, Extent(size_y[w])>>
    ELSE IF mode[w] = "AutoHeight" THEN <<Extent(size_x[w]), Extent(HalfI32Max)>>
    ELSE <<Extent(size_x[w]), Extent(size_y[w])>>

\* Lines 98-108 of cosmic_buffer_size: the size handed to Buffer::set_size.
BufferSizeFor(w) ==
    LET pad == IF position[w].kind = "Center" THEN 0 ELSE position[w].padding
    IN  IF mode[w] = "InfiniteLine" THEN <<F32_MAX, Extent(size_y[w])>>
        ELSE IF mode[w] = "AutoHeight" THEN <<Extent(size_x[w] - pad), Extent(HalfI32Max)>>
        ELSE <<Extent(size_x[w] - pad), Extent(size_y[w])>>

\* Assets<Image>: no image under the handle, or an image.
NoImage == [kind |-> "NoImage"]

Image(data, width, height) ==
    [kind |-> "Image", data |-> data, width |-> width, height |-> height]

\* Image::default(): one white pixel.
DefaultImage == Image(<<255, 255, 255, 255>>, 1, 1)

\* A loaded background image; the model keeps images of one colour, so that
\* resize_to_fill to the widget's dimensions gives that colour everywhere.
Backdrop(color) == [kind |-> "Image", color |-> color]

\* vec![0; n]
Zeros(n) == [i \in 1..n |-> 0]

\* n pixels of one colour.
Fill(n, color) == [i \in 1..(4 * n) |-> color[((i - 1) % 4) + 1]]

\* The background with a pixel buffer of at least one pixel.
BackgroundPixels_AtLeastOnePixel(w) ==
    LET n == IF size_x[w] * size_y[w] = 0 THEN 1 ELSE size_x[w] * size_y[w]
    IN  IF background[w]
        THEN IF bg_image[w].kind = "Image"
             THEN Fill(n, bg_image[w].color)
             ELSE Zeros(4 * n)
        ELSE Fill(n, fill_color[w])

\* Lines 152-180 of render_texture: the pixels before any glyph is drawn.
\* With a handle bound the fill colour is not used, loaded or not.
BackgroundPixels(w) ==
    LET n == size_x[w] * size_y[w]
    IN  IF background[w]
        THEN IF bg_image[w].kind = "Image"
             THEN Fill(n, bg_image[w].color)
             ELSE Zeros(4 * n)
        ELSE Fill(n, fill_color[w])

\* font_color of line 188.
FontColor == <<0, 0, 0, 255>>

\* The rectangles Buffer::draw and Editor::draw hand to draw_closure: one per
\* glyph of the first line at its pen position, one pixel high.  The cursor
\* and selection rectangles of Editor::draw are left out.
GlyphRects(w) ==
    LET gl == LayoutGlyphs(w)
    IN  [i \in 1..Len(gl) |->
           [x |-> SumSeq(SubSeq(gl, 1, i - 1)), y |-> 0, w |-> gl[i], h |-> 1,
            color |-> FontColor]]

RECURSIVE DrawRect(_, _, _, _)
\* draw_closure (lines 190-203) on one rectangle, from its k-th pixel on.
DrawRect(pix, w, r, k) ==
    IF pix.kind = "Panic" \/ k >= r.w * r.h THEN pix
    ELSE DrawRect(draw_pixel(pix.data, size_x[w], size_y[w],
                             r.x + (k % r.w) + padding_x[w]
                                 - (IF x_offset[w] = NoneOffset THEN 0 ELSE x_offset[w][1]),
                             r.y + (k \div r.w) + padding_y[w],
                             r.color),
                  w, r, k + 1)

RECURSIVE DrawRects(_, _, _, _)
DrawRects(pix, w, rects, i) ==
    IF i > Len(rects) THEN pix
    ELSE DrawRects(DrawRect(pix, w, rects[i], 0), w, rects, i + 1)

\* The pixels of one widget: background, then glyphs.
Compose(w) == DrawRects(Pixels(BackgroundPixels(w)), w, GlyphRects(w), 1)

\* The flag render_texture consults with every widget drawn on every pass.
NeedsDraw_Always(w) == TRUE

\* Lines 206-208 and 221-223: the flag render_texture consults.
NeedsDraw(w) == IF has_editor[w] THEN editor_redraw[w] ELSE redraw[w]

\* Lines 233-241: the canvas after a pass that drew pixels pix.
Replaced(w, pix) ==
    IF surface[w].kind = "Image"
    THEN Image(pix.data, size_x[w], size_y[w])
    ELSE surface[w]

RECURSIVE CursorX(_, _, _, _)
\* The loop of set_cursor over the glyphs of the first layout run
\* (lines 265-280), from glyph i on; idx is 0-based in the code, i - 1 here.
CursorX(m, gl, cur, i) ==
    IF m # "InfiniteLine" \/ i > Len(gl) THEN 0
    ELSE IF cur.affinity = "Before"
         THEN (IF i - 1 <= cur.index THEN gl[i] ELSE 0) + CursorX(m, gl, cur, i + 1)
         ELSE IF i - 1 < cur.index THEN gl[i] + CursorX(m, gl, cur, i + 1)
         ELSE 0

\* Lines 286-295 of set_cursor on the window (x_min, x_max): both tests read
\* the bounds bound by the `if let`, the second assignment overrides the first.
SlideWindow(win, cursor_x) ==
    LET x_min == win[1]
        x_max == win[2]
        first == IF cursor_x > x_max
                 THEN <<x_min + (cursor_x - x_max), cursor_x>>
                 ELSE win
    IN  IF cursor_x < x_min
        THEN <<cursor_x, x_max - (x_min - cursor_x)>>
        ELSE first

\* Lines 282-284: the window is established from None in InfiniteLine mode.
Establish(w) ==
    IF mode[w] = "InfiniteLine" /\ x_offset[w] = NoneOffset
    THEN <<0, size_x[w] - 2 * padding_x[w]>>
    ELSE x_offset[w]

\* Texts of the first line as glyph advances.
GlyphSeqs == UNION {[1..k -> GlyphWidths] : k \in 0..MaxGlyphs}

NoText ==
    /\ text = OneStyle(<<>>)
    /\ max_chars = 0
    /\ max_lines = 0
    /\ result = NoResult
    /\ alt = NoResult

\* The widgets as spawned: CosmicEditBundle defaults for the derived
\* components, the host's choice for the configuration.
Init ==
    /\ NoText
    /\ pc = "host"
    /\ scale \in 1..MaxScale
    /\ scale_events = <<>>
    /\ mode \in [Widgets -> Modes]
    /\ position \in [Widgets -> Positions]
    /\ has_editor \in [Widgets -> BOOLEAN]
    /\ sprite_x \in [Widgets -> 1..MaxSprite]
    /\ sprite_changed = [w \in Widgets |-> TRUE]
    /\ size_x = [w \in Widgets |-> 0]
    /\ padding_x = [w \in Widgets |-> 0]
    /\ x_offset = [w \in Widgets |-> NoneOffset]
    /\ metrics_scale = [w \in Widgets |-> scale]
    /\ redraw = [w \in Widgets |-> TRUE]
    /\ glyphs = [w \in Widgets |-> <<>>]
    /\ cursor = [w \in Widgets |-> [index |-> 0, affinity |-> "Before"]]
    /\ padding_y = [w \in Widgets |-> 0]
    /\ sprite_y = [w \in Widgets |-> 1]
    /\ size_y = [w \in Widgets |-> 0]
    /\ layout_runs = [w \in Widgets |-> 1]
    /\ buffer_size = [w \in Widgets |-> <<Extent(0), Extent(0)>>]
    /\ style_height = [n \in Nodes |-> Auto]
    /\ node_source = [n \in Nodes |-> "e0"]
    /\ editor_redraw = has_editor
    /\ fill_color = [w \in Widgets |-> <<255, 255, 255, 255>>]
    /\ background = [w \in Widgets |-> FALSE]
    /\ bg_image = [w \in Widgets |-> NoImage]
    /\ surface = [w \in Widgets |-> NoImage]
    /\ NoPixel
    /\ NoFeatures

\* The window moves to another scale factor: the host queues the event.
WindowScaleFactorChanged ==
    /\ pc = "host"
    /\ Len(scale_events) < MaxEvents
    /\ \E s \in 1..MaxScale :
          /\ s # scale
          /\ scale' = s
          /\ scale_events' = Append(scale_events, s)
    /\ UNCHANGED <<mode, position, has_editor, sprite_x, sprite_changed, size_x,
                   padding_x, x_offset, metrics_scale, redraw, glyphs, cursor>>
    /\ UNCHANGED <<pc, text, max_chars, max_lines, result, alt>>
    /\ UNCHANGED <<heightVars, renderVars, pixelVars, featureVars>>

\* The host assigns Sprite::custom_size.
HostSetsSprite ==
    /\ pc = "host"
    /\ \E w \in Widgets, x \in 1..MaxSprite :
          /\ sprite_x' = [sprite_x EXCEPT ![w] = x]
          /\ sprite_changed' = [sprite_changed EXCEPT ![w] = TRUE]
    /\ UNCHANGED <<scale, scale_events, mode, position, has_editor, size_x,
                   padding_x, x_offset, metrics_scale, redraw, glyphs, cursor>>
    /\ UNCHANGED <<pc, text, max_chars, max_lines, result, alt>>
    /\ UNCHANGED <<heightVars, renderVars, pixelVars, featureVars>>

\* An edit of the focused editor: the first line becomes gl, the cursor is
\* clamped to it.
EditText ==
    /\ pc = "host"
    /\ \E w \in Widgets, gl \in GlyphSeqs :
          /\ has_editor[w]
          /\ glyphs' = [glyphs EXCEPT ![w] = gl]
          /\ cursor' = [cursor EXCEPT ![w].index = Min(@, Len(gl))]
    /\ UNCHANGED <<scale, scale_events, mode, position, has_editor, sprite_x,
                   sprite_changed, size_x, padding_x, x_offset, metrics_scale,
                   redraw>>
    /\ UNCHANGED <<pc, text, max_chars, max_lines, result, alt>>
    /\ UNCHANGED <<heightVars, renderVars, pixelVars, featureVars>>

\* A cursor motion of the focused editor.
MoveCursor ==
    /\ pc = "host"
    /\ \E w \in Widgets, i \in 0..MaxGlyphs, a \in Affinities :
          /\ has_editor[w]
          /\ i <= Len(glyphs[w])
          /\ cursor' = [cursor EXCEPT ![w] = [index |-> i, affinity |-> a]]
    /\ UNCHANGED <<scale, scale_events, mode, position, has_editor, sprite_x,
                   sprite_changed, size_x, padding_x, x_offset, metrics_scale,
                   redraw, glyphs>>
    /\ UNCHANGED <<pc, text, max_chars, max_lines, result, alt>>
    /\ UNCHANGED <<heightVars, renderVars, pixelVars, featureVars>>

\* The schedules of a frame start (First).
BeginFrame ==
    /\ pc = "host"
    /\ pc' = "on_scale_factor_change"
    /\ UNCHANGED <<widgetVars, pixelVars, featureVars>>
    /\ UNCHANGED trimVars

\* The scale factor of the first of the pending events.
LastScaleFactor_First(events) == events[1]

\* Line 451: scale_factor_changed.read().last().unwrap().scale_factor.
LastScaleFactor(events) == events[Len(events)]

\* fn on_scale_factor_change: with an event pending, every widget's buffer
\* gets its Metrics at the scale of the last event and is marked for redraw,
\* and every XOffset becomes None; the reader consumes the events.
on_scale_factor_change ==
    /\ pc = "on_scale_factor_change"
    /\ IF scale_events # <<>>
       THEN LET new_scale_factor == LastScaleFactor(scale_events)
            IN  /\ metrics_scale' = [w \in Widgets |-> new_scale_factor]
                /\ redraw' = [w \in Widgets |-> TRUE]
                /\ x_offset' = [w \in Widgets |-> NoneOffset]
       ELSE UNCHANGED <<metrics_scale, redraw, x_offset>>
    /\ scale_events' = <<>>
    /\ pc' = "cosmic_widget_size"
    /\ UNCHANGED <<scale, mode, position, has_editor, sprite_x, sprite_changed,
                   size_x, padding_x, glyphs, cursor>>
    /\ UNCHANGED trimVars
    /\ UNCHANGED <<heightVars, renderVars, pixelVars, featureVars>>

\* fn cosmic_widget_size: for the widgets whose Sprite changed,
\* size = custom_size.ceil() * scale.
cosmic_widget_size ==
    /\ pc = "cosmic_widget_size"
    /\ size_x' = [w \in Widgets |->
                    IF sprite_changed[w] THEN sprite_x[w] * scale ELSE size_x[w]]
    /\ size_y' = [w \in Widgets |->
                    IF sprite_changed[w] THEN sprite_y[w] * scale ELSE size_y[w]]
    /\ sprite_changed' = [w \in Widgets |-> FALSE]
    /\ pc' = "cosmic_buffer_size"
    /\ UNCHANGED <<scale, scale_events, mode, position, has_editor, sprite_x,
                   padding_x, x_offset, metrics_scale, redraw, glyphs, cursor>>
    /\ UNCHANGED <<padding_y, sprite_y, layout_runs, buffer_size, style_height,
                   node_source>>
    /\ UNCHANGED <<trimVars, renderVars, pixelVars, featureVars>>

\* fn cosmic_buffer_size: every widget's buffer gets the size of its mode.
cosmic_buffer_size ==
    /\ pc = "cosmic_buffer_size"
    /\ buffer_size' = [w \in Widgets |-> BufferSizeFor(w)]
    /\ pc' = "auto_height"
    /\ UNCHANGED <<scale, scale_events, mode, position, has_editor, sprite_x,
                   sprite_changed, size_x, padding_x, x_offset, metrics_scale,
                   redraw, glyphs, cursor>>
    /\ UNCHANGED <<padding_y, sprite_y, size_y, layout_runs, style_height, node_source>>
    /\ UNCHANGED <<trimVars, renderVars, pixelVars, featureVars>>

\* fn auto_height: an AutoHeight widget whose text is taller than the widget
\* gets the text's height as its Sprite's height and a redraw, and every node
\* whose CosmicSource names it gets that height as Style::height.
auto_height ==
    /\ pc = "auto_height"
    /\ sprite_y' = [w \in Widgets |->
                      IF TextIsTaller(w) THEN GrownHeight(w) ELSE sprite_y[w]]
    /\ sprite_changed' = [w \in Widgets |-> sprite_changed[w] \/ TextIsTaller(w)]
    /\ redraw' = [w \in Widgets |-> redraw[w] \/ TextIsTaller(w)]
    /\ style_height' = [n \in Nodes |->
                          IF node_source[n] \in Widgets /\ TextIsTaller(node_source[n])
                          THEN GrownHeight(node_source[n])
                          ELSE style_height[n]]
    /\ pc' = "cosmic_padding"
    /\ UNCHANGED <<scale, scale_events, mode, position, has_editor, sprite_x,
                   size_x, padding_x, x_offset, metrics_scale, glyphs, cursor>>
    /\ UNCHANGED <<padding_y, size_y, layout_runs, buffer_size, node_source>>
    /\ UNCHANGED <<trimVars, renderVars, pixelVars, featureVars>>

\* fn cosmic_padding.
cosmic_padding ==
    /\ pc = "cosmic_padding"
    /\ padding_x' = [w \in Widgets |->
                       IF position[w].kind = "Center"
                       THEN get_x_offset_center(size_x[w], SumSeq(LayoutGlyphs(w)))
                       ELSE position[w].padding]
    /\ padding_y' = [w \in Widgets |->
                       IF position[w].kind = "TopLeft"
                       THEN position[w].padding
                       ELSE get_y_offset_center(size_y[w], get_text_size(w)[2])]
    /\ pc' = "set_cursor"
    /\ UNCHANGED <<scale, scale_events, mode, position, has_editor, sprite_x,
                   sprite_changed, size_x, x_offset, metrics_scale, redraw,
                   glyphs, cursor>>
    /\ UNCHANGED <<sprite_y, size_y, layout_runs, buffer_size, style_height, node_source>>
    /\ UNCHANGED <<trimVars, renderVars, pixelVars, featureVars>>

\* fn set_cursor: for every widget with an editor.
set_cursor ==
    /\ pc = "set_cursor"
    /\ x_offset' = [w \in Widgets |->
                      IF ~has_editor[w] THEN x_offset[w]
                      ELSE IF Establish(w) = NoneOffset THEN NoneOffset
                      ELSE SlideWindow(Establish(w),
                                       CursorX(mode[w], LayoutGlyphs(w), cursor[w], 1))]
    /\ pc' = "render_texture"
    /\ UNCHANGED <<scale, scale_events, mode, position, has_editor, sprite_x,
                   sprite_changed, size_x, padding_x, metrics_scale, redraw,
                   glyphs, cursor>>
    /\ UNCHANGED trimVars
    /\ UNCHANGED <<heightVars, renderVars, pixelVars, featureVars>>

\* fn render_texture: a widget whose flag asks for it is composed and its flag
\* cleared; the composed pixels replace the canvas image if the store holds
\* one.  The other widgets are skipped.
render_texture ==
    /\ pc = "render_texture"
    /\ editor_redraw' = [w \in Widgets |->
                            IF has_editor[w] /\ NeedsDraw(w) THEN FALSE
                            ELSE editor_redraw[w]]
    /\ redraw' = [w \in Widgets |->
                     IF ~has_editor[w] /\ NeedsDraw(w) THEN FALSE ELSE redraw[w]]
    /\ surface' = [w \in Widgets |->
                      IF NeedsDraw(w)
                      THEN LET pix == Compose(w)
                           IN  IF pix.kind = "Panic" THEN pix ELSE Replaced(w, pix)
                      ELSE surface[w]]
    /\ pc' = "host"
    /\ UNCHANGED <<scale, scale_events, mode, position, has_editor, sprite_x,
                   sprite_changed, size_x, padding_x, x_offset, metrics_scale,
                   glyphs, cursor>>
    /\ UNCHANGED <<heightVars, fill_color, background, bg_image>>
    /\ UNCHANGED <<trimVars, pixelVars, featureVars>>

Next ==
    \/ WindowScaleFactorChanged
    \/ HostSetsSprite
    \/ EditText
    \/ MoveCursor
    \/ BeginFrame
    \/ on_scale_factor_change
    \/ cosmic_widget_size
    \/ cosmic_buffer_size
    \/ auto_height
    \/ cosmic_padding
    \/ set_cursor
    \/ render_texture

Spec == Init /\ [][Next]_vars

----------------------------------------------------------------------------
(* Properties of the viewport window. *)

\* The cursor pixel-x that set_cursor computes for widget w.
CursorXOf(w) == CursorX(mode[w], LayoutGlyphs(w), cursor[w], 1)

\* C8: in InfiniteLine mode one set_cursor pass on a window (min, max) gives
\* (min + (cursor_x - max), cursor_x) if cursor_x > max, (cursor_x,
\* max - (min - cursor_x)) if cursor_x < min, and the window unchanged
\* otherwise; the width max - min is the same before and after the pass; the
\* window (0, 100) with cursor_x = 150 becomes (50, 150).
C8_SlideRule ==
    [][pc = "set_cursor" =>
         \A w \in Widgets :
           (has_editor[w] /\ mode[w] = "InfiniteLine" /\ x_offset[w] # NoneOffset) =>
             LET c == CursorXOf(w)
                 min == x_offset[w][1]
                 max == x_offset[w][2]
             IN  /\ c > max => x_offset'[w] = <<min + (c - max), c>>
                 /\ c < min => x_offset'[w] = <<c, max - (min - c)>>
                 /\ (~(c > max) /\ ~(c < min)) => x_offset'[w] = x_offset[w]
                 /\ x_offset'[w][2] - x_offset'[w][1] = max - min
                 /\ SlideWindow(<<0, 100>>, 150) = <<50, 150>>]_vars

\* C9: after every set_cursor pass on an InfiniteLine widget that has an
\* editor, the window satisfies min <= cursor_x <= max, also in the pass that
\* establishes the window from None.
C9_CursorInsideWindow ==
    [][pc = "set_cursor" =>
         \A w \in Widgets :
           (has_editor[w] /\ mode[w] = "InfiniteLine") =>
             /\ x_offset'[w] # NoneOffset
             /\ x_offset'[w][1] <= CursorXOf(w)
             /\ CursorXOf(w) <= x_offset'[w][2]]_vars

\* C10: processing a scale-factor-change event sets the XOffset of every
\* widget to None, and the window established afterwards starts at 0 with the
\* extent of the widget size at the new scale.
C10_WindowRebuiltAtNewScale ==
    [][/\ (pc = "on_scale_factor_change" /\ scale_events # <<>>) =>
           \A w \in Widgets : x_offset'[w] = NoneOffset
       /\ pc = "set_cursor" =>
           \A w \in Widgets :
             (has_editor[w] /\ mode[w] = "InfiniteLine" /\ x_offset[w] = NoneOffset) =>
               x_offset'[w] = SlideWindow(<<0, sprite_x[w] * scale - 2 * padding_x[w]>>,
                                          CursorXOf(w))]_vars

\* C27: after a scale-factor change is processed, every widget, with or
\* without an editor, is redrawn by the next render_texture pass: the flag
\* that render_texture consults for the widget is set.
C27_RedrawAfterScaleChange ==
    [][(pc = "on_scale_factor_change" /\ scale_events # <<>>) =>
         \A w \in Widgets :
            IF has_editor[w] THEN editor_redraw'[w] ELSE redraw'[w]]_vars

----------------------------------------------------------------------------
(* The frame with the heights under study: widgets without an editor, whose *)
(* Sprite height the host sets and whose text is reshaped between frames.  *)

SpriteHeights == {50, 80}

\* One position of each kind.
HeightPositions ==
    {[kind |-> "Center", padding |-> 0],
     [kind |-> "TopLeft", padding |-> MaxPadding],
     [kind |-> "Left", padding |-> 1]}

InitHeight ==
    /\ NoText
    /\ NoPixel
    /\ NoFeatures
    /\ pc = "host"
    /\ scale \in 1..MaxScale
    /\ scale_events = <<>>
    /\ mode \in [Widgets -> Modes]
    /\ position \in [Widgets -> HeightPositions]
    /\ has_editor = [w \in Widgets |-> FALSE]
    /\ sprite_x = [w \in Widgets |-> MaxSprite]
    /\ sprite_changed = [w \in Widgets |-> TRUE]
    /\ size_x = [w \in Widgets |-> 0]
    /\ padding_x = [w \in Widgets |-> 0]
    /\ x_offset = [w \in Widgets |-> NoneOffset]
    /\ metrics_scale = [w \in Widgets |-> scale]
    /\ redraw = [w \in Widgets |-> TRUE]
    /\ glyphs = [w \in Widgets |-> <<>>]
    /\ cursor = [w \in Widgets |-> [index |-> 0, affinity |-> "Before"]]
    /\ padding_y = [w \in Widgets |-> 0]
    /\ sprite_y \in [Widgets -> SpriteHeights]
    /\ size_y = [w \in Widgets |-> 0]
    /\ layout_runs = [w \in Widgets |-> 1]
    /\ buffer_size = [w \in Widgets |-> <<Extent(0), Extent(0)>>]
    /\ style_height = [n \in Nodes |-> Auto]
    /\ node_source \in [Nodes -> Entities]
    /\ editor_redraw = [w \in Widgets |-> FALSE]
    /\ fill_color = [w \in Widgets |-> <<255, 255, 255, 255>>]
    /\ background = [w \in Widgets |-> FALSE]
    /\ bg_image = [w \in Widgets |-> NoImage]
    /\ surface = [w \in Widgets |-> NoImage]

\* The host assigns the height of Sprite::custom_size.
HostSetsSpriteHeight ==
    /\ pc = "host"
    /\ \E w \in Widgets, y \in SpriteHeights :
          /\ sprite_y' = [sprite_y EXCEPT ![w] = y]
          /\ sprite_changed' = [sprite_changed EXCEPT ![w] = TRUE]
    /\ UNCHANGED <<scale, scale_events, mode, position, has_editor, sprite_x,
                   size_x, padding_x, x_offset, metrics_scale, redraw, glyphs,
                   cursor>>
    /\ UNCHANGED <<padding_y, size_y, layout_runs, buffer_size, style_height,
                   node_source>>
    /\ UNCHANGED <<pc, trimVars, renderVars, pixelVars, featureVars>>

\* The text of a buffer changes: it is laid out in n runs.
SetText ==
    /\ pc = "host"
    /\ \E w \in Widgets, n \in 0..MaxLines :
          layout_runs' = [layout_runs EXCEPT ![w] = n]
    /\ UNCHANGED <<scale, scale_events, mode, position, has_editor, sprite_x,
                   sprite_changed, size_x, padding_x, x_offset, metrics_scale,
                   redraw, glyphs, cursor>>
    /\ UNCHANGED <<padding_y, sprite_y, size_y, buffer_size, style_height,
                   node_source>>
    /\ UNCHANGED <<pc, trimVars, renderVars, pixelVars, featureVars>>

NextHeight ==
    \/ WindowScaleFactorChanged
    \/ HostSetsSpriteHeight
    \/ SetText
    \/ BeginFrame
    \/ on_scale_factor_change
    \/ cosmic_widget_size
    \/ cosmic_buffer_size
    \/ auto_height
    \/ cosmic_padding
    \/ set_cursor
    \/ render_texture

SpecHeight == InitHeight /\ [][NextHeight]_vars

----------------------------------------------------------------------------
(* Properties of the heights and of the buffer size. *)

\* C11: in AutoHeight mode auto_height never lowers the widget height: every
\* pass leaves the height of the widget's Sprite unchanged or raises it.
C11_HeightNeverLowered ==
    [][pc = "auto_height" =>
         \A w \in Widgets : sprite_y'[w] >= sprite_y[w]]_vars

\* The nodes whose CosmicSource names widget w.
NodesOf(w) == {n \in Nodes : node_source[n] = w}

Unbounded(e) ==
    \/ e = F32_MAX
    \/ e.kind = "f32" /\ e.v > MaxLines * LineHeight * MaxScale + VerticalMargin

PaddingOf(w) == IF position[w].kind = "Center" THEN 0 ELSE position[w].padding

\* C13: on every pass cosmic_buffer_size gives every widget's buffer the size
\* of its mode: Wrap (widget width - horizontal padding, widget height),
\* AutoHeight (widget width - horizontal padding, unbounded), InfiniteLine
\* (unbounded, widget height); the horizontal padding is 0 for Center and the
\* configured padding for TopLeft and Left.
C13_BufferSizeByMode ==
    [][pc = "cosmic_buffer_size" =>
         \A w \in Widgets :
            /\ mode[w] = "Wrap" =>
                  buffer_size'[w] = <<Extent(size_x[w] - PaddingOf(w)), Extent(size_y[w])>>
            /\ mode[w] = "AutoHeight" =>
                  /\ buffer_size'[w][1] = Extent(size_x[w] - PaddingOf(w))
                  /\ Unbounded(buffer_size'[w][2])
            /\ mode[w] = "InfiniteLine" =>
                  /\ Unbounded(buffer_size'[w][1])
                  /\ buffer_size'[w][2] = Extent(size_y[w])]_vars

C13_Witness ==
    /\ pc = "auto_height"
    /\ \E w \in Widgets :
          /\ mode[w] = "AutoHeight"
          /\ position[w].kind = "Left"
          /\ position[w].padding = 1
          /\ size_x[w] = 2
          /\ buffer_size[w][1] = Extent(1)
          /\ Unbounded(buffer_size[w][2])

\* f32::INFINITY
Infinity == [kind |-> "f32::INFINITY"]

\* C14: the unbounded width of InfiniteLine mode and the unbounded height of
\* AutoHeight mode are handed to set_size as +infinity, never as a large
\* finite number.
C14_UnboundedIsInfinity ==
    [][pc = "cosmic_buffer_size" =>
         \A w \in Widgets :
            /\ mode[w] = "InfiniteLine" => buffer_size'[w][1] = Infinity
            /\ mode[w] = "AutoHeight" => buffer_size'[w][2] = Infinity]_vars

\* C22: after on_scale_factor_change processes a change to scale s, every
\* widget's buffer metrics are its configured font size and line height times
\* s, whatever the scale before (no compounding over a sequence of changes);
\* with several events pending in one frame, s is the scale of the last one.
C22_MetricsAtLastScale ==
    [][(pc = "on_scale_factor_change" /\ scale_events # <<>>) =>
         \A w \in Widgets :
            /\ metrics_scale'[w] = scale_events[Len(scale_events)]
            /\ get_text_size(w)'[2] =
                  layout_runs[w] * LineHeight * scale_events[Len(scale_events)]]_vars

\* Two changes are pending, and the metrics are not at the scale of the first.
C22_Witness ==
    /\ pc = "on_scale_factor_change"
    /\ Len(scale_events) = 2
    /\ scale_events[1] # scale_events[2]
    /\ \E w \in Widgets : metrics_scale[w] # scale_events[1]

\* The height that auto_height gives widget w for the text and the scale it
\* has now is the height of its Sprite and is reflected in its pixel size.
GrowthReflected(w) ==
    /\ mode[w] = "AutoHeight"
    /\ sprite_y[w] = CeilDiv(layout_runs[w] * LineHeight * metrics_scale[w]
                                + VerticalMargin, scale)
    /\ size_y[w] = sprite_y[w] * scale

\* C32: with text, width and scale factor unchanged auto_height grows a
\* widget at most once: once the grown height is reflected in the widget's
\* pixel size, an auto_height pass changes no height, of the widget or of a
\* node, and marks no buffer for a redraw.
C32_NoGrowthOnceReflected ==
    [][pc = "auto_height" =>
         /\ \A w \in Widgets :
               GrowthReflected(w) =>
                  /\ sprite_y'[w] = sprite_y[w]
                  /\ sprite_changed'[w] = sprite_changed[w]
                  /\ redraw'[w] = redraw[w]
         /\ \A n \in Nodes :
               (node_source[n] \in Widgets /\ GrowthReflected(node_source[n]))
                  => style_height'[n] = style_height[n]]_vars

\* An auto_height pass is about to run on a widget that an earlier pass grew
\* to a height the host never set, drawn since and not marked.
C32_Witness ==
    /\ pc = "auto_height"
    /\ \E w \in Widgets :
          /\ GrowthReflected(w)
          /\ sprite_y[w] \notin SpriteHeights
          /\ layout_runs[w] > 0
          /\ ~redraw[w]
          /\ ~sprite_changed[w]

----------------------------------------------------------------------------
(* The frame with the rasterizer under study: small widgets of fixed size, *)
(* whose redraw is requested and whose images load between frames.         *)

RenderModes == {"Wrap", "InfiniteLine"}

RenderPositions ==
    {[kind |-> "TopLeft", padding |-> 0], [kind |-> "Center", padding |-> 0]}

RenderGlyphs == {<<>>, <<1>>}

\* The colour of the background images.
BackdropColor == <<255, 0, 0, 255>>

InitRender ==
    /\ NoText
    /\ NoPixel
    /\ NoFeatures
    /\ pc = "host"
    /\ scale = 1
    /\ scale_events = <<>>
    /\ mode \in [Widgets -> RenderModes]
    /\ position \in [Widgets -> RenderPositions]
    /\ has_editor \in [Widgets -> BOOLEAN]
    /\ sprite_x \in [Widgets -> 0..MaxSide]
    /\ sprite_changed = [w \in Widgets |-> TRUE]
    /\ size_x = [w \in Widgets |-> 0]
    /\ padding_x = [w \in Widgets |-> 0]
    /\ x_offset = [w \in Widgets |-> NoneOffset]
    /\ metrics_scale = [w \in Widgets |-> scale]
    /\ redraw \in [Widgets -> BOOLEAN]
    /\ glyphs \in [Widgets -> RenderGlyphs]
    /\ cursor = [w \in Widgets |-> [index |-> 0, affinity |-> "Before"]]
    /\ padding_y = [w \in Widgets |-> 0]
    /\ sprite_y \in [Widgets -> 0..MaxSide]
    /\ size_y = [w \in Widgets |-> 0]
    /\ layout_runs = [w \in Widgets |-> 1]
    /\ buffer_size = [w \in Widgets |-> <<Extent(0), Extent(0)>>]
    /\ style_height = [n \in Nodes |-> Auto]
    /\ node_source = [n \in Nodes |-> "e0"]
    /\ editor_redraw \in [Widgets -> BOOLEAN]
    /\ \A w \in Widgets : editor_redraw[w] => has_editor[w]
    /\ fill_color \in [Widgets -> BackColors]
    /\ background \in [Widgets -> BOOLEAN]
    /\ bg_image = [w \in Widgets |-> NoImage]
    /\ surface \in [Widgets -> {NoImage, DefaultImage}]
    \* new_image_from_default gives the widget of an editor its own image
    /\ \A w \in Widgets : has_editor[w] => surface[w] = DefaultImage

\* A redraw of the widget is requested: Editor and Buffer set their flag.
RequestRedraw ==
    /\ pc = "host"
    /\ \E w \in Widgets :
          IF has_editor[w]
          THEN /\ editor_redraw' = [editor_redraw EXCEPT ![w] = TRUE]
               /\ UNCHANGED redraw
          ELSE /\ redraw' = [redraw EXCEPT ![w] = TRUE]
               /\ UNCHANGED editor_redraw
    /\ UNCHANGED <<scale, scale_events, mode, position, has_editor, sprite_x,
                   sprite_changed, size_x, padding_x, x_offset, metrics_scale,
                   glyphs, cursor>>
    /\ UNCHANGED <<heightVars, fill_color, background, bg_image, surface>>
    /\ UNCHANGED <<pc, trimVars, pixelVars, featureVars>>

\* The asset store finishes loading an image: a bound background, or the
\* canvas of a widget.
AssetLoaded ==
    /\ pc = "host"
    /\ \E w \in Widgets :
          \/ /\ background[w]
             /\ bg_image[w] = NoImage
             /\ bg_image' = [bg_image EXCEPT ![w] = Backdrop(BackdropColor)]
             /\ UNCHANGED surface
          \/ /\ surface[w] = NoImage
             /\ surface' = [surface EXCEPT ![w] = DefaultImage]
             /\ UNCHANGED bg_image
    /\ UNCHANGED <<scale, scale_events, mode, position, has_editor, sprite_x,
                   sprite_changed, size_x, padding_x, x_offset, metrics_scale,
                   redraw, glyphs, cursor>>
    /\ UNCHANGED <<heightVars, editor_redraw, fill_color, background>>
    /\ UNCHANGED <<pc, trimVars, pixelVars, featureVars>>

NextRender ==
    \/ RequestRedraw
    \/ AssetLoaded
    \/ BeginFrame
    \/ on_scale_factor_change
    \/ cosmic_widget_size
    \/ cosmic_buffer_size
    \/ auto_height
    \/ cosmic_padding
    \/ set_cursor
    \/ render_texture

SpecRender == InitRender /\ [][NextRender]_vars

----------------------------------------------------------------------------
(* Properties of render_texture. *)

\* The flag that governs a widget: the editor's if it has one, else the
\* buffer's.
GoverningFlag(w) == (has_editor[w] /\ editor_redraw[w]) \/ (~has_editor[w] /\ redraw[w])

\* C15: when the flag that governs a widget is not set, a render_texture pass
\* leaves the widget's target surface (pixels and dimensions) and its redraw
\* flags unchanged.
C15_SkippedWhenNotRequested ==
    [][pc = "render_texture" =>
         \A w \in Widgets :
            ~GoverningFlag(w) =>
               /\ surface'[w] = surface[w]
               /\ redraw'[w] = redraw[w]
               /\ editor_redraw'[w] = editor_redraw[w]]_vars

\* After a frame that skipped the widget: the canvas is still the default
\* image although the widget has got its size.
C15_Witness ==
    /\ pc = "host"
    /\ \E w \in Widgets :
          /\ ~GoverningFlag(w)
          /\ size_x[w] = 2 /\ size_y[w] = 2
          /\ surface[w] = DefaultImage

\* C16: a requested redraw is not lost: a render_texture pass clears a set
\* flag only if it wrote the composed pixels into the widget's target surface;
\* a pass that finds no surface in the store leaves the flag set.
C16_RedrawNotLost ==
    [][pc = "render_texture" =>
         \A w \in Widgets :
            (GoverningFlag(w) /\ ~GoverningFlag(w)') =>
               /\ surface'[w].kind = "Image"
               /\ surface'[w].data = Compose(w).data]_vars

\* C19: with a background handle bound whose image is not in the store, the
\* pass fills every pixel with the fill colour before it draws the glyphs, as
\* it does with no background bound, and does not fail.
C19_FillWhenBackgroundMissing ==
    [][pc = "render_texture" =>
         \A w \in Widgets :
            (GoverningFlag(w) /\ background[w] /\ bg_image[w] = NoImage
               /\ surface[w].kind = "Image") =>
               surface'[w] =
                  Image(DrawRects(Pixels(Fill(size_x[w] * size_y[w], fill_color[w])),
                                  w, GlyphRects(w), 1).data,
                        size_x[w], size_y[w])]_vars

\* C20: for a widget of pixel width or height 0 the pass composes a buffer of
\* no bytes and does not fail, with or without a background bound and
\* loaded; the surface it replaces has no bytes.
C20_ZeroSizeIsEmpty ==
    [][pc = "render_texture" =>
         \A w \in Widgets :
            (GoverningFlag(w) /\ (size_x[w] = 0 \/ size_y[w] = 0)) =>
               /\ surface'[w].kind # "Panic"
               /\ surface[w].kind = "Image" =>
                     surface'[w] = Image(<<>>, size_x[w], size_y[w])]_vars

C20_Witness ==
    /\ pc = "host"
    /\ \E w \in Widgets :
          /\ size_x[w] = 0
          /\ size_y[w] = 2
          /\ glyphs[w] # <<>>
          /\ background[w]
          /\ bg_image[w].kind = "Image"
          /\ surface[w] = Image(<<>>, 0, 2)

----------------------------------------------------------------------------
(* draw_pixel as a state machine: the arguments of one call are drawn, then *)
(* the call is made.                                                       *)

PixelCalls ==
    UNION {[buffer : BuffersOf(w * h), width : {w}, height : {h},
            x : -1..MaxSide, y : -1..MaxSide, color : ForeColors] :
           <<w, h>> \in (0..MaxSide) \X (0..MaxSide)}

InitPixel ==
    /\ NoWidgets
    /\ NoFeatures
    /\ NoText
    /\ pc = "pixel_input"
    /\ px \in PixelCalls
    /\ px_out = <<>>

DrawPixel ==
    /\ pc = "pixel_input"
    /\ px_out' = draw_pixel(px.buffer, px.width, px.height, px.x, px.y, px.color)
    /\ pc' = "drawn"
    /\ UNCHANGED px
    /\ UNCHANGED <<trimVars, widgetVars, featureVars>>

NextPixel == DrawPixel

SpecPixel == InitPixel /\ [][NextPixel]_vars

----------------------------------------------------------------------------
(* Properties of draw_pixel. *)

InBounds == 0 <= px.x /\ px.x < px.width /\ 0 <= px.y /\ px.y < px.height

\* Index (1-based) of the first byte of pixel (x, y).
PixelAt == (px.y * px.width + px.x) * 4 + 1

\* C17: on an in-bounds pixel, a colour of alpha 255 makes the pixel's R, G, B
\* bytes exactly the colour's R, G, B whatever the background, and a colour of
\* alpha 0 leaves all four bytes of the pixel unchanged.
C17_OpaqueReplacesTransparentKeeps ==
    (pc = "drawn" /\ InBounds) =>
        /\ px.color[4] = 255 =>
              /\ px_out.kind = "Pixels"
              /\ \A c \in 0..2 : px_out.data[PixelAt + c] = px.color[c + 1]
        /\ px.color[4] = 0 =>
              /\ px_out.kind = "Pixels"
              /\ \A c \in 0..3 : px_out.data[PixelAt + c] = px.buffer[PixelAt + c]

C17_Witness ==
    /\ pc = "drawn"
    /\ InBounds
    /\ px.color[4] = 255
    /\ px.buffer[PixelAt] # px.color[1]
    /\ px_out.kind = "Pixels"
    /\ px_out.data[PixelAt] = px.color[1]

\* C18: with x outside [0, width) or y outside [0, height) draw_pixel changes
\* no byte and does not fail; with (x, y) in bounds it does not fail (no index
\* past the end of the width * height * 4 bytes) and changes no byte outside
\* the four bytes of pixel (x, y).
C18_OnlyThePixelInBounds ==
    pc = "drawn" =>
        /\ px_out.kind = "Pixels"
        /\ Len(px_out.data) = Len(px.buffer)
        /\ ~InBounds => px_out.data = px.buffer
        /\ InBounds =>
              \A i \in 1..Len(px.buffer) :
                 (i < PixelAt \/ i > PixelAt + 3) => px_out.data[i] = px.buffer[i]

C18_Witness ==
    /\ pc = "drawn"
    /\ ~InBounds
    /\ px.color[4] = 255
    /\ px.x = px.width
    /\ 0 <= px.y /\ px.y + 1 < px.height
    /\ px_out = Pixels(px.buffer)

----------------------------------------------------------------------------
(* CosmicEditHistory (lib.rs): the snapshots and the index of the current  *)
(* one.  The struct is in lib.rs; the passes that push, undo and redo are  *)
(* modelled from the specification of the history.                         *)

MaxHistory == 3     \* the capacity of the deque of snapshots

\* EditHistoryItem: a (cursor, lines) snapshot.
Snapshots == {"s1", "s2", "s3"}

\* VecDeque::get(idx), idx counted from 0; indexing out of bounds panics.
EditAt(idx) ==
    IF idx >= 0 /\ idx < Len(edits) THEN [kind |-> "Item", item |-> edits[idx + 1]]
    ELSE Panic("index out of bounds")

\* Undo with no test of the index.
CanUndo_Always == TRUE

\* There is an edit before the current index.
CanUndo == current_edit > 0

\* There is an edit after the current index.
CanRedo == current_edit < Len(edits)

\* The deque after a push at the current index: the edits after the index
\* are dropped, the snapshot is pushed at the back, and the oldest snapshot
\* is dropped when the capacity is exceeded.
Pushed(item) ==
    LET kept == Append(SubSeq(edits, 1, current_edit), item)
    IN  IF Len(kept) > MaxHistory THEN Tail(kept) ELSE kept

\* #[derive(Default)]: no edits, current_edit = 0.
InitHistory ==
    /\ NoWidgets
    /\ NoText
    /\ NoPixel
    /\ NoPlaceholders
    /\ NoLinks
    /\ NoSchedule
    /\ NoShape
    /\ pc = "default"
    /\ edits = <<>>
    /\ current_edit = 0

\* An edit is recorded.
PushEdit ==
    /\ \E item \in Snapshots :
          /\ edits' = Pushed(item)
          /\ current_edit' = Len(Pushed(item))
    /\ pc' = "push"
    /\ UNCHANGED <<trimVars, widgetVars, pixelVars>>
    /\ UNCHANGED <<placeholderVars, linkVars, scheduleVars, shapeVars>>

\* Undo: the snapshot before the index is restored and the index moves back.
Undo ==
    /\ CanUndo
    /\ result' = EditAt(current_edit - 1)
    /\ current_edit' = current_edit - 1
    /\ pc' = "undo"
    /\ UNCHANGED <<edits, text, max_chars, max_lines, alt>>
    /\ UNCHANGED <<widgetVars, pixelVars>>
    /\ UNCHANGED <<placeholderVars, linkVars, scheduleVars, shapeVars>>

\* Redo: the snapshot at the index is applied again and the index moves on.
Redo ==
    /\ CanRedo
    /\ result' = EditAt(current_edit)
    /\ current_edit' = current_edit + 1
    /\ pc' = "redo"
    /\ UNCHANGED <<edits, text, max_chars, max_lines, alt>>
    /\ UNCHANGED <<widgetVars, pixelVars>>
    /\ UNCHANGED <<placeholderVars, linkVars, scheduleVars, shapeVars>>

NextHistory ==
    \/ PushEdit
    \/ Undo
    \/ Redo

SpecHistory == InitHistory /\ [][NextHistory]_vars

\* C25: current_edit <= number of stored edits in every reachable state,
\* starting from the default (no edits, current_edit = 0); undo and redo move
\* current_edit by one within the stored range and never index out of bounds;
\* a push while current_edit is before the end drops every edit after
\* current_edit.
C25_HistoryIndexInRange ==
    /\ [](/\ current_edit >= 0
          /\ current_edit <= Len(edits)
          /\ result.kind # "Panic")
    /\ [][/\ pc' = "undo" => (current_edit' = current_edit - 1 /\ edits' = edits)
          /\ pc' = "redo" => (current_edit' = current_edit + 1 /\ edits' = edits)
          /\ pc' = "push" =>
                /\ current_edit' = Len(edits')
                /\ \E k \in 0..1 :
                      SubSeq(edits', 1, Len(edits') - 1) =
                         SubSeq(edits, 1 + k, current_edit)]_vars

\* A push before the end has dropped the edits after the index: two edits,
\* one undone, then a third pushed.
C25_Witness ==
    /\ pc = "push"
    /\ result = [kind |-> "Item", item |-> "s1"]
    /\ edits = <<"s1", "s3">>
    /\ current_edit = 2

----------------------------------------------------------------------------
(* The placeholder (render.rs): show_placeholder, restore_placeholder_text, *)
(* the deferred commands of the first, and the user's edits, interleaved.  *)

MaxTyped == 2       \* characters the user has entered and not deleted
MaxCommands == 2    \* commands queued before they are applied

\* PlaceholderText.0 of the widgets.
PlaceholderText == <<"p">>

\* What the user types.
TypedChars == {"a"}

InitPlaceholder ==
    /\ NoText
    /\ NoPixel
    /\ NoHistory
    /\ NoLinks
    /\ NoSchedule
    /\ NoShape
    /\ pc = "spawned"
    /\ scale = 1
    /\ scale_events = <<>>
    /\ mode = <<>>
    /\ position = <<>>
    /\ has_editor \in [Widgets -> BOOLEAN]
    /\ sprite_x = <<>>
    /\ sprite_changed = <<>>
    /\ size_x = <<>>
    /\ padding_x = <<>>
    /\ x_offset = <<>>
    /\ metrics_scale = <<>>
    /\ redraw = <<>>
    /\ glyphs = <<>>
    /\ cursor = [w \in Widgets |-> [index |-> 0, affinity |-> "Before"]]
    /\ padding_y = <<>>
    /\ sprite_y = <<>>
    /\ size_y = <<>>
    /\ layout_runs = <<>>
    /\ buffer_size = <<>>
    /\ style_height = <<>>
    /\ node_source = <<>>
    /\ editor_redraw = <<>>
    /\ fill_color = <<>>
    /\ background = <<>>
    /\ bg_image = <<>>
    /\ surface = <<>>
    /\ buffer_text = [w \in Widgets |-> <<>>]
    /\ user_text = [w \in Widgets |-> <<>>]
    /\ placeholder = [w \in Widgets |-> FALSE]
    /\ commands = <<>>

\* What the placeholder passes and the edits leave alone.
PlaceholderFrame ==
    /\ UNCHANGED <<scale, scale_events, mode, position, has_editor, sprite_x,
                   sprite_changed, size_x, padding_x, x_offset, metrics_scale,
                   redraw, glyphs>>
    /\ UNCHANGED <<heightVars, renderVars, pixelVars, trimVars>>
    /\ UNCHANGED <<historyVars, linkVars, scheduleVars, shapeVars>>

\* The user types a character at the end of the widget's text.
TypeChar ==
    /\ \E w \in Widgets, c \in TypedChars :
          /\ Len(user_text[w]) < MaxTyped
          /\ buffer_text' = [buffer_text EXCEPT ![w] = Append(@, c)]
          /\ user_text' = [user_text EXCEPT ![w] = Append(@, c)]
          /\ cursor' = [cursor EXCEPT ![w].index = Len(buffer_text'[w])]
    /\ pc' = "edit"
    /\ UNCHANGED <<placeholder, commands>>
    /\ PlaceholderFrame

\* The user deletes the last character they entered.
Backspace ==
    /\ \E w \in Widgets :
          /\ user_text[w] # <<>>
          /\ buffer_text' = [buffer_text EXCEPT ![w] = SubSeq(@, 1, Len(@) - 1)]
          /\ user_text' = [user_text EXCEPT ![w] = SubSeq(@, 1, Len(@) - 1)]
          /\ cursor' = [cursor EXCEPT ![w].index = Len(buffer_text'[w])]
    /\ pc' = "edit"
    /\ UNCHANGED <<placeholder, commands>>
    /\ PlaceholderFrame

\* The order in which a query yields the widgets.
QueryOrder ==
    CHOOSE q \in [1..Cardinality(Widgets) -> Widgets] :
       \A w \in Widgets : \E i \in 1..Cardinality(Widgets) : q[i] = w

\* Line 596: buffer.get_text().is_empty().
IsEmptyText(w) == buffer_text[w] = <<>>

\* fn show_placeholder: a widget whose buffer text is empty gets the
\* placeholder text, its editor's cursor index 0, and a queued insertion of
\* the marker; for the others the removal of the marker is queued.
show_placeholder ==
    /\ Len(commands) + Cardinality(Widgets) <= MaxCommands
    /\ buffer_text' = [w \in Widgets |->
                          IF IsEmptyText(w) THEN PlaceholderText ELSE buffer_text[w]]
    /\ cursor' = [w \in Widgets |->
                     IF IsEmptyText(w) /\ has_editor[w]
                     THEN [cursor[w] EXCEPT !.index = 0]
                     ELSE cursor[w]]
    /\ commands' = commands \o
                      [i \in 1..Cardinality(Widgets) |->
                          [op |-> IF IsEmptyText(QueryOrder[i]) THEN "insert" ELSE "remove",
                           entity |-> QueryOrder[i]]]
    /\ pc' = "show_placeholder"
    /\ UNCHANGED <<user_text, placeholder>>
    /\ PlaceholderFrame

RECURSIVE Applied(_, _)
\* The marker of widget w after the queued commands, in order.
Applied(had, q) ==
    IF q = <<>> THEN had
    ELSE Applied(Head(q).op = "insert", Tail(q))

\* The queued commands are applied (apply_deferred).
apply_deferred ==
    /\ commands # <<>>
    /\ placeholder' = [w \in Widgets |->
                          Applied(placeholder[w],
                                  SelectSeq(commands, LAMBDA c : c.entity = w))]
    /\ commands' = <<>>
    /\ pc' = "apply_deferred"
    /\ UNCHANGED <<buffer_text, user_text, cursor>>
    /\ PlaceholderFrame

\* fn restore_placeholder_text: every widget that carries the marker gets
\* the empty text.
restore_placeholder_text ==
    /\ buffer_text' = [w \in Widgets |-> IF placeholder[w] THEN <<>> ELSE buffer_text[w]]
    /\ user_text' = [w \in Widgets |-> IF placeholder[w] THEN <<>> ELSE user_text[w]]
    /\ pc' = "restore_placeholder_text"
    /\ UNCHANGED <<placeholder, commands, cursor>>
    /\ PlaceholderFrame

NextPlaceholder ==
    \/ TypeChar
    \/ Backspace
    \/ show_placeholder
    \/ apply_deferred
    \/ restore_placeholder_text

SpecPlaceholder == InitPlaceholder /\ [][NextPlaceholder]_vars

\* The buffer shows the placeholder in place of an empty logical text.
ShowsSubstitution(w) == user_text[w] = <<>> /\ buffer_text[w] = PlaceholderText

\* C23: with no command pending, a widget carries the Placeholder marker
\* exactly when its buffer shows the placeholder in place of an empty logical
\* text; a show_placeholder pass on a widget whose logical text is empty
\* leaves the placeholder shown, with the editor's cursor at index 0, and
\* asks for the marker, so that no pass takes the placeholder text for the
\* logical text.
C23_MarkerIffSubstituted ==
    /\ [](commands = <<>> => \A w \in Widgets : placeholder[w] <=> ShowsSubstitution(w))
    /\ [][pc' = "show_placeholder" =>
            \A w \in Widgets :
               user_text[w] = <<>> =>
                  /\ buffer_text'[w] = PlaceholderText
                  /\ has_editor[w] => cursor'[w].index = 0
                  /\ \E i \in (Len(commands) + 1)..Len(commands') :
                        commands'[i] = [op |-> "insert", entity |-> w]]_vars

\* C24: restore_placeholder_text only clears placeholder content: in no
\* interleaving does a restore_placeholder_text pass change the text of a
\* widget whose buffer holds text the user entered.
C24_RestoreKeepsUserText ==
    [][pc' = "restore_placeholder_text" =>
         \A w \in Widgets :
            user_text[w] # <<>> => buffer_text'[w] = buffer_text[w]]_vars

----------------------------------------------------------------------------
(* The links from other entities to a widget (render.rs): the entities     *)
(* that carry a CosmicSource take the widget's image (swap_target_handle)  *)
(* and give it their size (set_size_from_ui), while widgets are destroyed  *)
(* and editors come and go.                                                *)

\* Handles of images; an entity may carry no Handle<Image> or no UiImage.
Handles == {"h0", "h1", "h2"}

NoHandle == "none"

\* Node::size() of a linking entity as <<x, y>>: not laid out yet, or laid
\* out.
NodeSizes == {<<0, 0>>, <<1, MaxSide>>}

InitLinks ==
    /\ NoText
    /\ NoPixel
    /\ NoHistory
    /\ NoPlaceholders
    /\ NoSchedule
    /\ NoShape
    /\ pc = "spawned"
    /\ scale = 1
    /\ scale_events = <<>>
    /\ mode = <<>>
    /\ position = <<>>
    /\ size_x = <<>>
    /\ padding_x = <<>>
    /\ x_offset = <<>>
    /\ metrics_scale = <<>>
    /\ redraw = <<>>
    /\ glyphs = <<>>
    /\ cursor = <<>>
    /\ padding_y = <<>>
    /\ size_y = <<>>
    /\ layout_runs = <<>>
    /\ buffer_size = <<>>
    /\ style_height = <<>>
    /\ editor_redraw = <<>>
    /\ fill_color = <<>>
    /\ background = <<>>
    /\ bg_image = <<>>
    /\ surface = <<>>
    /\ has_editor \in [Widgets -> BOOLEAN]
    /\ sprite_x = [w \in Widgets |-> MaxSprite]
    /\ sprite_y = [w \in Widgets |-> MaxSprite]
    /\ sprite_changed = [w \in Widgets |-> TRUE]
    /\ node_source \in [Nodes -> Entities]
    /\ alive = [w \in Widgets |-> TRUE]
    /\ canvas = [w \in Widgets |-> "h1"]
    /\ canvas_changed = [w \in Widgets |-> TRUE]
    \* n1 is a sprite that shows the widget's image, n2 a UI image
    /\ dest_handle = [n \in Nodes |-> IF n = "n1" THEN "h0" ELSE NoHandle]
    /\ dest_texture = [n \in Nodes |-> IF n = "n1" THEN NoHandle ELSE "h0"]
    /\ node_size = [n \in Nodes |-> <<0, 0>>]

\* What the passes over the links and the host's actions on them leave alone.
LinksFrame ==
    /\ UNCHANGED <<scale, scale_events, mode, position, size_x, padding_x,
                   x_offset, metrics_scale, redraw, glyphs, cursor,
                   padding_y, size_y, layout_runs, buffer_size, style_height,
                   node_source, editor_redraw, fill_color, background,
                   bg_image, surface>>
    /\ UNCHANGED <<trimVars, pixelVars>>
    /\ UNCHANGED <<historyVars, placeholderVars, scheduleVars, shapeVars>>

\* The host despawns a widget: its entity is in no query any more.
Despawn ==
    /\ \E w \in Widgets :
          /\ alive[w]
          /\ alive' = [alive EXCEPT ![w] = FALSE]
    /\ pc' = "host"
    /\ UNCHANGED <<has_editor, sprite_x, sprite_y, sprite_changed>>
    /\ UNCHANGED <<canvas, canvas_changed, dest_handle, dest_texture, node_size>>
    /\ LinksFrame

\* A widget gains or loses its CosmicEditor (focus).
SetEditor ==
    /\ \E w \in Widgets :
          /\ alive[w]
          /\ has_editor' = [has_editor EXCEPT ![w] = ~@]
    /\ pc' = "host"
    /\ UNCHANGED <<sprite_x, sprite_y, sprite_changed>>
    /\ UNCHANGED linkVars
    /\ LinksFrame

\* A widget gets another image handle (new_image_from_default, or the host).
SetCanvas ==
    /\ \E w \in Widgets, h \in Handles :
          /\ alive[w]
          /\ h # canvas[w]
          /\ canvas' = [canvas EXCEPT ![w] = h]
          /\ canvas_changed' = [canvas_changed EXCEPT ![w] = TRUE]
    /\ pc' = "host"
    /\ UNCHANGED <<has_editor, sprite_x, sprite_y, sprite_changed>>
    /\ UNCHANGED <<alive, dest_handle, dest_texture, node_size>>
    /\ LinksFrame

\* The UI layout gives a linking entity its size.
LayoutNode ==
    /\ \E n \in Nodes, sz \in NodeSizes :
          /\ sz # node_size[n]
          /\ node_size' = [node_size EXCEPT ![n] = sz]
    /\ pc' = "host"
    /\ UNCHANGED <<has_editor, sprite_x, sprite_y, sprite_changed>>
    /\ UNCHANGED <<alive, canvas, canvas_changed, dest_handle, dest_texture>>
    /\ LinksFrame

\* Query::get without the test that the entity exists.
HasEditor_Stale(e) == e \in Widgets /\ has_editor[e]

\* Query<_, With<CosmicEditor>>::get(e) is Ok: the entity exists and carries
\* an editor.
HasEditor(e) == e \in Widgets /\ alive[e] /\ has_editor[e]

\* Line 478: source_q.get(source_entity.0) is Ok; the query also asks for
\* Changed<Handle<Image>>.
SourceHandle(e) == HasEditor(e) /\ canvas_changed[e]

\* fn swap_target_handle: the Handle<Image> and the UiImage texture of every
\* linking entity become the handle of its source, where the lookup of the
\* source succeeds and the component is present.
swap_target_handle ==
    /\ dest_handle' = [n \in Nodes |->
                          IF SourceHandle(node_source[n]) /\ dest_handle[n] # NoHandle
                          THEN canvas[node_source[n]]
                          ELSE dest_handle[n]]
    /\ dest_texture' = [n \in Nodes |->
                           IF SourceHandle(node_source[n]) /\ dest_texture[n] # NoHandle
                           THEN canvas[node_source[n]]
                           ELSE dest_texture[n]]
    /\ canvas_changed' = [w \in Widgets |-> FALSE]
    /\ pc' = "swap_target_handle"
    /\ UNCHANGED <<has_editor, sprite_x, sprite_y, sprite_changed>>
    /\ UNCHANGED <<alive, canvas, node_size>>
    /\ LinksFrame

\* The order in which dest_q yields the linking entities.
NodeOrder == <<"n1", "n2">>

\* The linking entities whose source is widget w, in query order.
LinkedNodes(w) == SelectSeq(NodeOrder, LAMBDA n : node_source[n] = w)

\* Line 347: node.size().ceil().max(Vec2::ONE), on one axis.
AtLeastOne(v) == IF v < 1 THEN 1 ELSE v

\* fn set_size_from_ui: the Sprite of every source that the lookup finds gets
\* the size of the entity that links to it; the last link in query order
\* stays.
set_size_from_ui ==
    /\ sprite_x' = [w \in Widgets |->
                      IF HasEditor(w) /\ LinkedNodes(w) # <<>>
                      THEN AtLeastOne(node_size[LinkedNodes(w)[Len(LinkedNodes(w))]][1])
                      ELSE sprite_x[w]]
    /\ sprite_y' = [w \in Widgets |->
                      IF HasEditor(w) /\ LinkedNodes(w) # <<>>
                      THEN AtLeastOne(node_size[LinkedNodes(w)[Len(LinkedNodes(w))]][2])
                      ELSE sprite_y[w]]
    /\ sprite_changed' = [w \in Widgets |->
                            sprite_changed[w] \/ (HasEditor(w) /\ LinkedNodes(w) # <<>>)]
    /\ pc' = "set_size_from_ui"
    /\ UNCHANGED has_editor
    /\ UNCHANGED linkVars
    /\ LinksFrame

NextLinks ==
    \/ Despawn
    \/ SetEditor
    \/ SetCanvas
    \/ LayoutNode
    \/ swap_target_handle
    \/ set_size_from_ui

SpecLinks == InitLinks /\ [][NextLinks]_vars

\* The source of a link is a widget that no longer exists, or an entity
\* without an editor.
DeadLink(n) ==
    \/ node_source[n] \notin Widgets
    \/ ~alive[node_source[n]]
    \/ ~has_editor[node_source[n]]

\* C26: swap_target_handle leaves the handle and the texture of every linking
\* entity whose source no longer exists, or has no editor, unchanged;
\* set_size_from_ui changes no Sprite on behalf of a widget that no longer
\* exists or has no editor; both passes run to their end in every state.
C26_DeadLinksSkipped ==
    /\ [](ENABLED swap_target_handle /\ ENABLED set_size_from_ui)
    /\ [][/\ pc' = "swap_target_handle" =>
               \A n \in Nodes :
                  DeadLink(n) => /\ dest_handle'[n] = dest_handle[n]
                                 /\ dest_texture'[n] = dest_texture[n]
          /\ pc' = "set_size_from_ui" =>
               \A w \in Widgets :
                  (~alive[w] \/ ~has_editor[w]) =>
                     /\ sprite_x'[w] = sprite_x[w]
                     /\ sprite_y'[w] = sprite_y[w]
                     /\ sprite_changed'[w] = sprite_changed[w]]_vars

\* After a swap_target_handle pass: an entity still links to a destroyed
\* widget whose handle had changed, and keeps its own handle.
C26_Witness ==
    /\ pc = "swap_target_handle"
    /\ \E n \in Nodes :
          /\ node_source[n] \in Widgets
          /\ ~alive[node_source[n]]
          /\ has_editor[node_source[n]]
          /\ canvas[node_source[n]] = "h2"
          /\ dest_handle[n] = "h0"

----------------------------------------------------------------------------
(* The cursor pixel-x of set_cursor (render.rs, lines 264-280) on the      *)
(* shaped runs of a buffer: one run per line, one glyph per character,     *)
(* each glyph with its advance and the byte range of its character.        *)

\* The characters of a line, and the advance of their glyphs.
LineChars == {"a", "e_acute"}

Advance(c) == IF c = "e_acute" THEN 2 ELSE 1

\* LayoutRun::glyphs of a line of text: LayoutGlyph { w, start, end }.
GlyphsOf(s) ==
    [i \in 1..Len(s) |->
        [w |-> Advance(s[i]),
         start |-> ByteLen(Prefix(s, i - 1)),
         end |-> ByteLen(Prefix(s, i))]]

LineTexts == UNION {[1..k -> LineChars] : k \in 0..MaxGlyphs}

\* Buffers of one to MaxLines lines.
Layouts == UNION {[1..n -> {GlyphsOf(s) : s \in LineTexts}] : n \in 1..MaxLines}

\* Cursor { line, index, affinity } on a character boundary of a line of the
\* buffer; line counts from 0.
CursorsOn(lay) ==
    {[line |-> l, index |-> i, affinity |-> a] :
        l \in 0..(Len(lay) - 1), i \in 0..(2 * MaxGlyphs), a \in Affinities}

OnBoundary(lay, cur) ==
    \/ cur.index = 0
    \/ \E g \in 1..Len(lay[cur.line + 1]) : lay[cur.line + 1][g].end = cur.index

InitCursor ==
    /\ NoText
    /\ NoPixel
    /\ NoHistory
    /\ NoPlaceholders
    /\ NoLinks
    /\ NoSchedule
    /\ pc = "cursor_input"
    /\ scale = 1
    /\ scale_events = <<>>
    /\ position = <<>>
    /\ sprite_x = <<>>
    /\ sprite_changed = <<>>
    /\ size_x = <<>>
    /\ padding_x = <<>>
    /\ x_offset = <<>>
    /\ metrics_scale = <<>>
    /\ redraw = <<>>
    /\ glyphs = <<>>
    /\ padding_y = <<>>
    /\ sprite_y = <<>>
    /\ size_y = <<>>
    /\ layout_runs = <<>>
    /\ buffer_size = <<>>
    /\ style_height = <<>>
    /\ node_source = <<>>
    /\ editor_redraw = <<>>
    /\ fill_color = <<>>
    /\ background = <<>>
    /\ bg_image = <<>>
    /\ surface = <<>>
    /\ has_editor = [w \in Widgets |-> TRUE]
    /\ mode \in [Widgets -> Modes]
    /\ layout \in [Widgets -> Layouts]
    /\ cursor \in [Widgets -> UNION {CursorsOn(lay) : lay \in Layouts}]
    /\ \A w \in Widgets :
          /\ cursor[w] \in CursorsOn(layout[w])
          /\ OnBoundary(layout[w], cursor[w])
    /\ cursor_px = [w \in Widgets |-> 0]

\* The advances of the glyphs of a run.
Widths(run) == [i \in 1..Len(run) |-> run[i].w]

\* Lines 265-280 of set_cursor: cursor_x of every widget with an editor, from
\* the first run that buffer.layout_runs() yields.
SetCursorX ==
    /\ pc = "cursor_input"
    /\ cursor_px' = [w \in Widgets |->
                       CursorX(mode[w], Widths(layout[w][1]), cursor[w], 1)]
    /\ pc' = "cursor_x"
    /\ UNCHANGED layout
    /\ UNCHANGED <<scale, scale_events, mode, position, has_editor, sprite_x,
                   sprite_changed, size_x, padding_x, x_offset,
                   metrics_scale, redraw, glyphs, cursor, padding_y,
                   sprite_y, size_y, layout_runs, buffer_size, style_height,
                   node_source, editor_redraw, fill_color, background,
                   bg_image, surface>>
    /\ UNCHANGED <<trimVars, pixelVars>>
    /\ UNCHANGED <<historyVars, placeholderVars, linkVars, scheduleVars>>

NextCursor == SetCursorX

SpecCursor == InitCursor /\ [][NextCursor]_vars

RECURSIVE AdvancesBefore(_, _, _)
\* The advances of the glyphs of a run that start before byte index, and of
\* the glyph that starts at index when at_too.
AdvancesBefore(run, index, at_too) ==
    IF run = <<>> THEN 0
    ELSE (IF Head(run).start < index \/ (at_too /\ Head(run).start = index)
          THEN Head(run).w ELSE 0)
         + AdvancesBefore(Tail(run), index, at_too)

\* C28: in InfiniteLine mode cursor_x is the sum of the advances of the
\* glyphs on the cursor's line before the cursor's byte index, plus the
\* advance of the glyph at the cursor when the affinity is Before, also with
\* multi-byte characters and with the cursor on any line; in the other modes
\* cursor_x is 0.
C28_CursorXIsAdvanceSum ==
    pc = "cursor_x" =>
       \A w \in Widgets :
          cursor_px[w] =
             IF mode[w] = "InfiniteLine"
             THEN AdvancesBefore(layout[w][cursor[w].line + 1], cursor[w].index,
                                 cursor[w].affinity = "Before")
             ELSE 0

----------------------------------------------------------------------------
(* The frame: the systems the plugin adds to First, PreUpdate, Update and  *)
(* PostUpdate (lib.rs, lines 222-259) in every order the schedule allows.  *)
(* A chain orders its members; the members of a tuple inside a chain are   *)
(* ordered against the other members of the chain, and not against each    *)
(* other.                                                                  *)

\* DEFAULT_SCALE_PLACEHOLDER: the scale factor a bundle carries when the host
\* gave none, a value that is no window's scale factor.
DEFAULT_SCALE_PLACEHOLDER == 0

\* Lines 231-241: the chain of First.
First ==
    <<{"add_font_system"}, {"set_initial_scale"}, {"set_redraw"},
      {"swap_target_handle"}, {"on_scale_factor_change"}>>

\* Line 242.
PreUpdate == <<{"input_mouse"}>>

\* Lines 243-253: the chain of Update.
Update ==
    <<{"drop_editor_unfocused"}, {"add_editor_to_focused"}, {"input_kb"},
      {"reshape"}, {"blink_cursor"}>>

\* PostUpdate with render_texture beside the layout systems and not after
\* them.
PostUpdate_Unchained ==
    <<{"new_image_from_default", "set_sprite_size_from_ui"},
      {"set_widget_size", "set_buffer_size"},
      {"auto_height", "render_texture"}, {"set_padding"}, {"set_cursor"}>>

\* Lines 222-229 and 254-259: layout_systems, a chain whose first two members
\* are tuples, chained with render_texture.
PostUpdate ==
    <<{"new_image_from_default", "set_sprite_size_from_ui"},
      {"set_widget_size", "set_buffer_size"},
      {"auto_height"}, {"set_padding"}, {"set_cursor"}, {"render_texture"}>>

\* The systems of a schedule.
SystemsOf(schedule) == UNION {schedule[i] : i \in 1..Len(schedule)}

\* The Main schedule runs First, PreUpdate, Update, PostUpdate, each to its
\* end.
Frame == First \o PreUpdate \o Update \o PostUpdate

Systems == SystemsOf(Frame)

\* The systems that the schedule orders before system s.
Before(s) ==
    LET i == CHOOSE k \in 1..Len(Frame) : s \in Frame[k]
    IN  UNION {Frame[k] : k \in 1..(i - 1)}

\* System s may run now.
Ready(s) ==
    /\ s \in Systems
    /\ s \notin ran
    /\ Before(s) \subseteq ran

\* The host's own Update systems run while the Update schedule runs.
InUpdate ==
    /\ SystemsOf(First) \cup SystemsOf(PreUpdate) \subseteq ran
    /\ ran \cap SystemsOf(PostUpdate) = {}

\* The systems of the frame whose effect is on none of the components below.
OtherSystems == Systems \ {"set_initial_scale", "set_widget_size", "set_buffer_size"}

InitFrame ==
    /\ NoText
    /\ NoPixel
    /\ NoHistory
    /\ NoPlaceholders
    /\ NoShape
    /\ pc = "startup"
    /\ canvas = <<>>
    /\ canvas_changed = <<>>
    /\ dest_handle = <<>>
    /\ dest_texture = <<>>
    /\ node_size = <<>>
    /\ scale_events = <<>>
    /\ has_editor = <<>>
    /\ padding_x = <<>>
    /\ x_offset = <<>>
    /\ metrics_scale = <<>>
    /\ redraw = <<>>
    /\ glyphs = <<>>
    /\ cursor = <<>>
    /\ padding_y = <<>>
    /\ layout_runs = <<>>
    /\ style_height = <<>>
    /\ node_source = <<>>
    /\ editor_redraw = <<>>
    /\ fill_color = <<>>
    /\ background = <<>>
    /\ bg_image = <<>>
    /\ surface = <<>>
    /\ scale \in 1..MaxScale
    /\ mode \in [Widgets -> Modes]
    /\ position = [w \in Widgets |-> [kind |-> "Left", padding |-> 1]]
    /\ sprite_x \in [Widgets -> 1..MaxSprite]
    /\ sprite_y = [w \in Widgets |-> MaxSprite]
    /\ sprite_changed = [w \in Widgets |-> TRUE]
    /\ size_x = [w \in Widgets |-> 0]
    /\ size_y = [w \in Widgets |-> 0]
    /\ buffer_size = [w \in Widgets |-> <<Extent(0), Extent(0)>>]
    /\ ran = {}
    /\ alive \in [Widgets -> BOOLEAN]
    /\ scale_factor \in [Widgets -> {DEFAULT_SCALE_PLACEHOLDER} \cup (1..MaxScale)]
    /\ metrics_added = [w \in Widgets |-> TRUE]

\* What no system of the frame changes.
FrameFixed ==
    /\ UNCHANGED <<trimVars, renderVars, pixelVars, historyVars,
                   placeholderVars, shapeVars>>
    /\ UNCHANGED <<canvas, canvas_changed, dest_handle, dest_texture, node_size>>
    /\ UNCHANGED <<scale, scale_events, mode, position, has_editor,
                   padding_x, x_offset, metrics_scale, redraw, glyphs,
                   cursor, padding_y, sprite_y, layout_runs, style_height,
                   node_source, editor_redraw, fill_color, background,
                   bg_image, surface>>

\* A system of the host spawns the widget (lib.rs, lines 446-460): its
\* components are new and changed to every system that has not seen them.
Spawn ==
    /\ InUpdate
    /\ \E w \in Widgets :
          /\ ~alive[w]
          /\ alive' = [alive EXCEPT ![w] = TRUE]
    /\ pc' = "spawn"
    /\ UNCHANGED <<ran, scale_factor, metrics_added>>
    /\ UNCHANGED <<sprite_x, sprite_changed, size_x, size_y, buffer_size>>
    /\ FrameFixed

\* A system of the host assigns Sprite::custom_size.
ResizeSprite ==
    /\ InUpdate
    /\ \E w \in Widgets, x \in 1..MaxSprite :
          /\ alive[w]
          /\ x # sprite_x[w]
          /\ sprite_x' = [sprite_x EXCEPT ![w] = x]
          /\ sprite_changed' = [sprite_changed EXCEPT ![w] = TRUE]
    /\ pc' = "resize"
    /\ UNCHANGED <<ran, alive, scale_factor, metrics_added>>
    /\ UNCHANGED <<size_x, size_y, buffer_size>>
    /\ FrameFixed

\* fn set_initial_scale: the widgets whose CosmicMetrics was added since the
\* last run get the window's scale factor in place of the placeholder.
set_initial_scale ==
    /\ Ready("set_initial_scale")
    /\ scale_factor' =
          [w \in Widgets |->
              IF /\ alive[w]
                 /\ metrics_added[w]
                 /\ scale_factor[w] = DEFAULT_SCALE_PLACEHOLDER
              THEN scale
              ELSE scale_factor[w]]
    /\ metrics_added' = [w \in Widgets |-> IF alive[w] THEN FALSE ELSE metrics_added[w]]
    /\ ran' = ran \cup {"set_initial_scale"}
    /\ pc' = "set_initial_scale"
    /\ UNCHANGED <<alive, sprite_x, sprite_changed, size_x, size_y, buffer_size>>
    /\ FrameFixed

\* set_widget_size, fn cosmic_widget_size of render.rs: for the widgets whose
\* Sprite changed since the last run, size = custom_size.ceil() * scale.
set_widget_size ==
    /\ Ready("set_widget_size")
    /\ size_x' = [w \in Widgets |->
                    IF alive[w] /\ sprite_changed[w]
                    THEN sprite_x[w] * scale ELSE size_x[w]]
    /\ size_y' = [w \in Widgets |->
                    IF alive[w] /\ sprite_changed[w]
                    THEN sprite_y[w] * scale ELSE size_y[w]]
    /\ sprite_changed' = [w \in Widgets |->
                             IF alive[w] THEN FALSE ELSE sprite_changed[w]]
    /\ ran' = ran \cup {"set_widget_size"}
    /\ pc' = "set_widget_size"
    /\ UNCHANGED <<alive, scale_factor, metrics_added, sprite_x, buffer_size>>
    /\ FrameFixed

\* set_buffer_size, fn cosmic_buffer_size of render.rs: every widget's buffer
\* gets the size of its mode, from CosmicWidgetSize as it is now.
set_buffer_size ==
    /\ Ready("set_buffer_size")
    /\ buffer_size' = [w \in Widgets |->
                         IF alive[w] THEN BufferSizeFor(w) ELSE buffer_size[w]]
    /\ ran' = ran \cup {"set_buffer_size"}
    /\ pc' = "set_buffer_size"
    /\ UNCHANGED <<alive, scale_factor, metrics_added, sprite_x, sprite_changed,
                   size_x, size_y>>
    /\ FrameFixed

\* Any other system of the frame runs.
RunSystem ==
    /\ \E s \in OtherSystems :
          /\ Ready(s)
          /\ ran' = ran \cup {s}
          /\ pc' = s
    /\ UNCHANGED <<alive, scale_factor, metrics_added, sprite_x, sprite_changed,
                   size_x, size_y, buffer_size>>
    /\ FrameFixed

\* Every system of the frame has run: the next frame begins.
EndFrame ==
    /\ ran = Systems
    /\ ran' = {}
    /\ pc' = "frame"
    /\ UNCHANGED <<alive, scale_factor, metrics_added, sprite_x, sprite_changed,
                   size_x, size_y, buffer_size>>
    /\ FrameFixed

NextFrame ==
    \/ Spawn
    \/ ResizeSprite
    \/ set_initial_scale
    \/ set_widget_size
    \/ set_buffer_size
    \/ RunSystem
    \/ EndFrame

SpecFrame == InitFrame /\ [][NextFrame]_vars

\* The passes that take input and the passes that lay the widget out.
InputPasses == {"input_mouse", "input_kb"}

LayoutPasses ==
    {"new_image_from_default", "set_sprite_size_from_ui", "set_widget_size",
     "set_buffer_size", "auto_height", "set_padding", "set_cursor"}

\* C21: within a frame the input passes run before every layout pass and
\* every layout pass runs before render_texture, so that once render_texture
\* has run nothing of what it drew from is changed in the same frame.
C21_InputThenLayoutThenRender ==
    /\ [](/\ (ran \cap LayoutPasses # {} => InputPasses \subseteq ran)
          /\ ("render_texture" \in ran => LayoutPasses \subseteq ran))
    /\ [][("render_texture" \in ran /\ "render_texture" \in ran') =>
             UNCHANGED <<alive, scale_factor, sprite_x, sprite_y, size_x,
                         size_y, buffer_size>>]_vars

\* render_texture has run in a frame in which the widget was resized and its
\* buffer sized.
C21_Witness ==
    /\ pc = "render_texture"
    /\ \E w \in Widgets :
          /\ alive[w]
          /\ size_x[w] = sprite_x[w] * scale
          /\ buffer_size[w] = BufferSizeFor(w)
          /\ buffer_size[w] # <<Extent(0), Extent(0)>>

\* C29: set_initial_scale replaces the placeholder scale factor of a newly
\* added widget by the window's and leaves an explicit one as it is, and the
\* placeholder is gone before the widget's buffer is sized for the first
\* time, also when the widget is spawned after First has run.
C29_PlaceholderResolvedBeforeSizing ==
    [][/\ ("set_initial_scale" \notin ran /\ "set_initial_scale" \in ran') =>
             \A w \in Widgets :
                alive[w] =>
                   scale_factor'[w] =
                      IF scale_factor[w] = DEFAULT_SCALE_PLACEHOLDER /\ metrics_added[w]
                      THEN scale ELSE scale_factor[w]
       /\ ("set_buffer_size" \notin ran /\ "set_buffer_size" \in ran') =>
             \A w \in Widgets :
                alive[w] => scale_factor[w] # DEFAULT_SCALE_PLACEHOLDER]_vars

\* C30: in whichever order the schedule runs the widget-size pass and the
\* buffer-size pass, the buffer is sized from the widget size of this frame:
\* the one that belongs to the sprite as it is now.
C30_BufferSizedFromThisFramesSize ==
    [][("set_buffer_size" \notin ran /\ "set_buffer_size" \in ran') =>
          \A w \in Widgets :
             alive[w] =>
                /\ mode[w] # "InfiniteLine" =>
                      buffer_size'[w][1] =
                         Extent(sprite_x[w] * scale - position[w].padding)
                /\ mode[w] = "Wrap" =>
                      buffer_size'[w][2] = Extent(sprite_y[w] * scale)]_vars

----------------------------------------------------------------------------
(* The frames of a widget that is left alone: its text, its width and the  *)
(* window's scale factor stay as they are, and the app runs frame after    *)
(* frame.                                                                  *)

InitGrow ==
    /\ NoText
    /\ NoPixel
    /\ NoFeatures
    /\ pc = "host"
    /\ scale \in 1..MaxScale
    /\ scale_events = <<>>
    /\ mode \in [Widgets -> Modes]
    /\ position \in [Widgets -> HeightPositions]
    /\ has_editor = [w \in Widgets |-> FALSE]
    /\ sprite_x = [w \in Widgets |-> 1]
    /\ sprite_changed = [w \in Widgets |-> TRUE]
    /\ size_x = [w \in Widgets |-> 0]
    /\ padding_x = [w \in Widgets |-> 0]
    /\ x_offset = [w \in Widgets |-> NoneOffset]
    /\ metrics_scale = [w \in Widgets |-> scale]
    /\ redraw = [w \in Widgets |-> TRUE]
    /\ glyphs = [w \in Widgets |-> <<>>]
    /\ cursor = [w \in Widgets |-> [index |-> 0, affinity |-> "Before"]]
    /\ padding_y = [w \in Widgets |-> 0]
    /\ sprite_y \in [Widgets -> SpriteHeights]
    /\ size_y = [w \in Widgets |-> 0]
    /\ layout_runs \in [Widgets -> 0..MaxLines]
    /\ buffer_size = [w \in Widgets |-> <<Extent(0), Extent(0)>>]
    /\ style_height = [n \in Nodes |-> Auto]
    /\ node_source = [n \in Nodes |-> "e0"]
    /\ editor_redraw = [w \in Widgets |-> FALSE]
    /\ fill_color = [w \in Widgets |-> <<255, 255, 255, 255>>]
    /\ background = [w \in Widgets |-> FALSE]
    /\ bg_image = [w \in Widgets |-> NoImage]
    /\ surface = [w \in Widgets |-> DefaultImage]

NextGrow ==
    \/ BeginFrame
    \/ on_scale_factor_change
    \/ cosmic_widget_size
    \/ cosmic_buffer_size
    \/ auto_height
    \/ cosmic_padding
    \/ set_cursor
    \/ render_texture

\* The app's runner runs the schedules of a frame, and then the next frame:
\* the step that is due, which moves pc, is taken.
SpecGrow == InitGrow /\ [][NextGrow]_vars /\ WF_pc(NextGrow)

\* auto_height has just grown widget w: its Sprite changed after
\* cosmic_widget_size had seen it in this frame.
JustGrown(w) ==
    /\ pc = "cosmic_padding"
    /\ mode[w] = "AutoHeight"
    /\ sprite_changed[w]

\* The target surface of widget w has the dimensions of its Sprite.
SurfaceHasSpriteSize(w) ==
    /\ surface[w].kind = "Image"
    /\ surface[w].width = sprite_x[w] * scale
    /\ surface[w].height = sprite_y[w] * scale

\* C31: after auto_height grows a widget its target surface is eventually
\* redrawn with the grown dimensions: the growth is not lost when the draw of
\* the same frame, which still has the widget size from before the growth,
\* clears the redraw flag that auto_height set.
C31_GrowthEventuallyDrawn ==
    \A w \in Widgets : JustGrown(w) ~> SurfaceHasSpriteSize(w)

----------------------------------------------------------------------------
(* The viewport window of a widget whose mode the host changes and whose   *)
(* editor comes and goes with the focus.                                   *)

InitViewport ==
    /\ NoText
    /\ NoPixel
    /\ NoFeatures
    /\ pc = "host"
    /\ scale = 1
    /\ scale_events = <<>>
    /\ mode \in [Widgets -> Modes]
    /\ position \in [Widgets -> HeightPositions]
    /\ has_editor \in [Widgets -> BOOLEAN]
    /\ sprite_x \in [Widgets -> 1..MaxSprite]
    /\ sprite_changed = [w \in Widgets |-> TRUE]
    /\ size_x = [w \in Widgets |-> 0]
    /\ padding_x = [w \in Widgets |-> 0]
    /\ x_offset = [w \in Widgets |-> NoneOffset]
    /\ metrics_scale = [w \in Widgets |-> scale]
    /\ redraw = [w \in Widgets |-> TRUE]
    /\ glyphs = [w \in Widgets |-> <<>>]
    /\ cursor = [w \in Widgets |-> [index |-> 0, affinity |-> "Before"]]
    /\ padding_y = [w \in Widgets |-> 0]
    /\ sprite_y = [w \in Widgets |-> 1]
    /\ size_y = [w \in Widgets |-> 0]
    /\ layout_runs = [w \in Widgets |-> 1]
    /\ buffer_size = [w \in Widgets |-> <<Extent(0), Extent(0)>>]
    /\ style_height = [n \in Nodes |-> Auto]
    /\ node_source = [n \in Nodes |-> "e0"]
    /\ editor_redraw = has_editor
    /\ fill_color = [w \in Widgets |-> <<255, 255, 255, 255>>]
    /\ background = [w \in Widgets |-> FALSE]
    /\ bg_image = [w \in Widgets |-> NoImage]
    /\ surface = [w \in Widgets |-> NoImage]

\* The host assigns another CosmicMode to a widget.
SwitchMode ==
    /\ pc = "host"
    /\ \E w \in Widgets, m \in Modes :
          /\ m # mode[w]
          /\ mode' = [mode EXCEPT ![w] = m]
    /\ UNCHANGED <<scale, scale_events, position, has_editor, sprite_x,
                   sprite_changed, size_x, padding_x, x_offset, metrics_scale,
                   redraw, glyphs, cursor>>
    /\ UNCHANGED <<pc, trimVars, heightVars, renderVars, pixelVars, featureVars>>

\* The widget loses the focus: its CosmicEditor is removed, and with it the
\* editor's redraw flag.  XOffset is a component of the widget and stays.
DropEditor ==
    /\ pc = "host"
    /\ \E w \in Widgets :
          /\ has_editor[w]
          /\ has_editor' = [has_editor EXCEPT ![w] = FALSE]
          /\ editor_redraw' = [editor_redraw EXCEPT ![w] = FALSE]
    /\ UNCHANGED <<scale, scale_events, mode, position, sprite_x, sprite_changed,
                   size_x, padding_x, x_offset, metrics_scale, redraw, glyphs,
                   cursor>>
    /\ UNCHANGED <<heightVars, fill_color, background, bg_image, surface>>
    /\ UNCHANGED <<pc, trimVars, pixelVars, featureVars>>

\* The widget gets the focus: it gets a CosmicEditor, marked or not.
AddEditor ==
    /\ pc = "host"
    /\ \E w \in Widgets, marked \in BOOLEAN :
          /\ ~has_editor[w]
          /\ has_editor' = [has_editor EXCEPT ![w] = TRUE]
          /\ editor_redraw' = [editor_redraw EXCEPT ![w] = marked]
    /\ UNCHANGED <<scale, scale_events, mode, position, sprite_x, sprite_changed,
                   size_x, padding_x, x_offset, metrics_scale, redraw, glyphs,
                   cursor>>
    /\ UNCHANGED <<heightVars, fill_color, background, bg_image, surface>>
    /\ UNCHANGED <<pc, trimVars, pixelVars, featureVars>>

NextViewport ==
    \/ EditText
    \/ MoveCursor
    \/ RequestRedraw
    \/ SwitchMode
    \/ DropEditor
    \/ AddEditor
    \/ BeginFrame
    \/ on_scale_factor_change
    \/ cosmic_widget_size
    \/ cosmic_buffer_size
    \/ auto_height
    \/ cosmic_padding
    \/ set_cursor
    \/ render_texture

SpecViewport == InitViewport /\ [][NextViewport]_vars

\* render_texture draws widget w in this pass.
Drawn(w) == IF has_editor[w] THEN editor_redraw[w] ELSE redraw[w]

\* C33: the viewport minimum is never negative, and the content of a widget
\* in Wrap or AutoHeight mode is never shifted horizontally: whenever
\* render_texture draws such a widget its XOffset is None or has min = 0, also
\* after the widget's mode was switched away from InfiniteLine, with or
\* without an editor.
C33_NoShiftOutsideInfiniteLine ==
    /\ [](\A w \in Widgets : x_offset[w] # NoneOffset => x_offset[w][1] >= 0)
    /\ [][pc = "render_texture" =>
            \A w \in Widgets :
               (Drawn(w) /\ mode[w] # "InfiniteLine") =>
                  (x_offset[w] = NoneOffset \/ x_offset[w][1] = 0)]_vars

====
